---- MODULE Spec2Model ----
(***************************************************************************)
(* A model of the money-movement engine and the transfer queue of          *)
(* go-payment-api.                                                         *)
(*                                                                         *)
(* Spec       the transaction engine (internal/services/                   *)
(*            transaction_service.go) running inside db.WithTransaction    *)
(*            against the balances and transactions tables, with several   *)
(*            goroutines interleaved statement by statement.               *)
(* SpecQueue  the bounded job channel and its workers (internal/services/  *)
(*            transaction_queue.go) with the callers that wait on the      *)
(*            result channels.                                            *)
(*                                                                         *)
(* Money is counted in thousandths of a lira (1 TL = 1000, one cent = 10): *)
(* the Go code carries amounts as float64 and the tables store them as     *)
(* DECIMAL(15,2), so a request amount may carry a fraction of a cent that  *)
(* the stored value cannot.                                                *)
(***************************************************************************)
EXTENDS Integers, Sequences, FiniteSets, TLC

\* ------------------------------------------------------------------ bounds
NumProcs == 2
MaxFaults == 1
NumWorkers == 2
BufferSize == 2
MaxJobs == 3
NumTxObjs == 2
MaxSetCalls == 4
NumCallers == 2
NumMigrations == 3
MaxDay == 2
MaxEdits == 1
MaxRuns == 2
MaxSqlLen == 7

\* The accounts: user ids.
Users == {1, 2}
Procs == 1..NumProcs
Workers == 1..NumWorkers
Jobs == 1..MaxJobs
TxObjs == 1..NumTxObjs
Callers == 1..NumCallers
Migs == 1..NumMigrations

\* Request amounts the callers may send (thousandths): zero, less than half
\* a cent, half a cent, one cent.
AmountChoices == {0, 4, 5, 10}

\* Balances an account that has a balances row may start with (thousandths,
\* whole cents).
InitialBalances == {10, 30}

\* ------------------------------------------------------------------ state
VARIABLES
    dbBal,        \* balances table, committed: user_id -> amount or NoRow
    dbTx,         \* transactions table, committed rows
    dbHist,       \* balance_history table, committed rows
    txSeq,        \* the SERIAL sequence of transactions.id
    rowLock,      \* row locks of balances: user_id -> set of holders (0 or 1)
    pc,           \* where each goroutine is in its operation
    op,           \* the operation a goroutine runs: kind, user, to, amount
    fromBalance,  \* Transfer's fromBalance
    toBalance,    \* Transfer's toBalance
    currentBalance, \* Credit's and Debit's currentBalance
    transactionID,\* the id RETURNING gave, 0 before the insert
    status,       \* Status of the in-memory models.Transaction
    wBal,         \* uncommitted balance writes of the goroutine's sql.Tx
    wTx,          \* uncommitted transactions rows of the goroutine's sql.Tx
    result,       \* what the operation returned: "none", "ok", "rejected", "error"
    faults,       \* infrastructure failures injected so far
    initBal,      \* history: the balances at the start
    ledger,       \* history: sum of the signed request amounts of committed operations
    balCreate,    \* users whose GetByUserID found no row and whose CreateBalance is to run
    \* ---- the transaction queue
    started,      \* Start() has spawned the workers
    jobChan,      \* q.jobChan: the buffered channel of jobs (job numbers)
    chanClosed,   \* close(q.jobChan) has happened
    stopState,    \* Stop(): "running", "waiting" (in wg.Wait), "stopped"
    wgCount,      \* q.wg: the WaitGroup counter
    wState,       \* each worker: "idle", "waiting" (at range), "processing", "exited"
    wJob,         \* the job a worker is processing, 0 when none
    caller,       \* the handler of job j: "new", "waiting", "received", "panicked"
    resultChan,   \* job.ResultChan: buffered (1) channel of results
    resultClosed, \* close(job.ResultChan) has happened
    overflow,     \* the goroutine AddJob spawned to send the queue-full error runs
    received,     \* what the handler read from the result channel, "none" before
    answer,       \* the HTTP status the handler answered with, 0 before
    accepted,     \* history: jobs in the order the channel accepted them
    dequeued,     \* history: jobs in the order workers took them
    finished,     \* history: jobs in the order workers sent their results
    sent,         \* history: number of results sent on each result channel
    \* ---- models.Transaction objects and their status
    txStatus,     \* Status field of each transaction object
    lastCall,     \* the last SetStatus call: object, requested status, error or not
    statusChanges,\* history: how often the Status of an object has changed
    setCalls,     \* number of SetStatus calls so far
    \* ---- db.WithTransaction around an arbitrary body
    wtPc,         \* each caller: "idle", "body", "afterBody", "recovered", "returned"
    wtTx,         \* its sql.Tx: "none", "open", "committed", "rolledback"
    wtBody,       \* how fn ended: "none", or kind (nil, error, panic) and value
    wtRet,        \* how WithTransaction ended: "none", or kind, cause and wrapped
    wtFinish,     \* history: the tx.Commit and tx.Rollback calls, in order
    wtVisible,    \* the callers whose writes are committed in the database
    \* ---- the migration runner
    today,        \* the day of the clock (stands for YYYYMMDD)
    fileUp,       \* migrations directory: checksum of each NNNNNN_*.up.sql
    fileDown,     \* checksum of each NNNNNN_*.down.sql, NoFile when there is none
    edits,        \* number of file edits so far
    dbSchema,     \* database: the migrations whose UP effects are in place
    track,        \* schema_migrations, committed rows
    trackTable,   \* whether the table schema_migrations exists
    mPc,          \* the runner: "idle", "up", "down", "sql", "record", "commit"
    mCfg,         \* r.config of the run
    mTarget,      \* targetVersion of the run
    mDir,         \* direction of the run: "up" or "down"
    mList,        \* migrations as LoadMigrationsWithStatus returned them
    mIdx,         \* loop index into mList
    mResults,     \* results of the run so far
    mErr,         \* error the run returned: "none", "initialize", "load", "checksum"
    txSchema,     \* schema as the open migration transaction sees it
    txTrack,      \* schema_migrations as the open migration transaction sees it
    runs,         \* number of RunUp and RunDown calls so far
    \* ---- the statement splitter of the migration runner
    sql,          \* the script handed to splitSQLStatements, as characters
    stmts,        \* the statements it returned
    splitPc,      \* "idle", "done"
    \* ---- the HTTP pipeline
    appEnv,       \* APP_ENV the router was set up with
    httpReq,      \* the request being served
    httpPc,       \* "idle", "validation", "cors", "ratelimit", "auth", "rbac",
                  \* "handler", "service", "recover", "return", "done"
    ctxClaims,    \* the claims under UserContextKey, NoClaims when absent
    panicVal,     \* the value the chain panicked with, NoPanic when none
    wrapped,      \* errorResponseWriter: statusCode, responseWritten
    resp,         \* what has been written to the client
    handlerRan,   \* whether the route's handler was entered
    reqCount,     \* requests taken so far
    \* ---- the users table and UserService
    users,        \* the users table: email, role, deleted, rev of each row, by id
    svc,          \* the call of UserService each caller has under way
    svcCalls,     \* calls of the service by its direct callers so far
    \* ---- the rate limiter
    rlNow,        \* time.Now(), in ticks
    limiters,     \* rlm.limiters: the ipLimiter of each client IP
    rlLast,       \* the last request the middleware handled and its outcome
    rlSeen,       \* history: the requests of each IP the limiter has checked
    rlCalls,      \* requests handled so far
    \* ---- graceful shutdown
    sdNow,        \* time since the signal, in ticks of five seconds
    sdMain,       \* main: "serving", "httpWait", "forceWait", "queueWait", "returned", "exited"
    listening,    \* the listeners of the server are open
    inflight,     \* requests whose handler is running
    sdHttp,       \* the goroutine of server.Shutdown: "none", "started", "polling", "done"
    sdStop,       \* the goroutine of transactionQueue.Stop: "none", "started", "waiting", "done"
    ctxDeadline,  \* deadline of shutdownCtx
    mainDeadline, \* deadline of the wait main is in
    sdClosed,     \* close(q.jobChan) has happened
    sdQueued,     \* jobs in the channel or with a worker
    sdPanics,     \* history: sends on the closed job channel
    dbClosed,     \* database.Close() has been called
    sdEvents,     \* history: the steps of the shutdown and their times
    \* ---- validation of the money requests
    vReq,         \* the request of the last call: kind, user, to, amount
    vOut,         \* "none", "rejected" (returned before the database), "begun"
    vCalls,       \* calls so far
    \* ---- token refresh
    rfToken,      \* the token the last RefreshToken call was given
    rfNew,        \* the token it returned, NoToken for an error
    rfCalls,      \* calls so far
    \* ---- metrics middleware
    metConfig,        \* the MetricsConfig the middleware was built with
    metPc,            \* per request: "out" or "in" (inside next.ServeHTTP)
    ActiveRequests,   \* metrics.ActiveRequests
    TotalRequests,    \* metrics.TotalRequests
    StatusCodeCounts, \* metrics.StatusCodeCounts
    metPasses,        \* entries of the middleware so far
    metPanics         \* requests whose inner handler panicked so far

engineVars == <<dbBal, dbTx, dbHist, txSeq, rowLock, pc, op, fromBalance, toBalance,
                currentBalance, transactionID, status, wBal, wTx, result, faults,
                initBal, ledger, balCreate>>

queueVars == <<started, jobChan, chanClosed, stopState, wgCount, wState, wJob,
               caller, resultChan, resultClosed, overflow, received, answer,
               accepted, dequeued, finished, sent>>

fsmVars == <<txStatus, lastCall, statusChanges, setCalls>>

wtVars == <<wtPc, wtTx, wtBody, wtRet, wtFinish, wtVisible>>

migVars == <<today, fileUp, fileDown, edits, dbSchema, track, trackTable, mPc, mCfg,
             mTarget, mDir, mList, mIdx, mResults, mErr, txSchema, txTrack, runs>>

splitVars == <<sql, stmts, splitPc>>

httpVars == <<appEnv, httpReq, httpPc, ctxClaims, panicVal, wrapped, resp,
              handlerRan, reqCount>>

regVars == <<users, svc, svcCalls>>

rlVars == <<rlNow, limiters, rlLast, rlSeen, rlCalls>>

sdVars == <<sdNow, sdMain, listening, inflight, sdHttp, sdStop, ctxDeadline,
            mainDeadline, sdClosed, sdQueued, sdPanics, dbClosed, sdEvents>>

valVars == <<vReq, vOut, vCalls>>

rfVars == <<rfToken, rfNew, rfCalls>>

metVars == <<metConfig, metPc, ActiveRequests, TotalRequests,
             StatusCodeCounts, metPasses, metPanics>>

vars == <<engineVars, queueVars, fsmVars, wtVars, migVars, splitVars,
          httpVars, regVars, rlVars, sdVars, valVars, rfVars, metVars>>

\* What the steps of one component leave alone: the other components.
exceptEngine == <<queueVars, fsmVars, wtVars, migVars, splitVars, httpVars,
                  regVars, rlVars, sdVars, valVars, rfVars, metVars>>
exceptQueue == <<engineVars, fsmVars, wtVars, migVars, splitVars, httpVars,
                 regVars, rlVars, sdVars, valVars, rfVars, metVars>>
exceptFsm == <<engineVars, queueVars, wtVars, migVars, splitVars, httpVars,
               regVars, rlVars, sdVars, valVars, rfVars, metVars>>
exceptWt == <<engineVars, queueVars, fsmVars, migVars, splitVars, httpVars,
              regVars, rlVars, sdVars, valVars, rfVars, metVars>>
exceptMig == <<engineVars, queueVars, fsmVars, wtVars, splitVars, httpVars,
               regVars, rlVars, sdVars, valVars, rfVars, metVars>>
exceptSplit == <<engineVars, queueVars, fsmVars, wtVars, migVars, httpVars,
                 regVars, rlVars, sdVars, valVars, rfVars, metVars>>
exceptHttp == <<engineVars, queueVars, fsmVars, wtVars, migVars, splitVars,
                regVars, rlVars, sdVars, valVars, rfVars, metVars>>
exceptReg == <<engineVars, queueVars, fsmVars, wtVars, migVars, splitVars,
               httpVars, rlVars, sdVars, valVars, rfVars, metVars>>
exceptHttpReg == <<engineVars, queueVars, fsmVars, wtVars, migVars, splitVars,
                   rlVars, sdVars, valVars, rfVars, metVars>>
exceptRl == <<engineVars, queueVars, fsmVars, wtVars, migVars, splitVars,
              httpVars, regVars, sdVars, valVars, rfVars, metVars>>
exceptSd == <<engineVars, queueVars, fsmVars, wtVars, migVars, splitVars,
              httpVars, regVars, rlVars, valVars, rfVars, metVars>>
exceptVal == <<engineVars, queueVars, fsmVars, wtVars, migVars, splitVars,
               httpVars, regVars, rlVars, sdVars, rfVars, metVars>>
exceptRf == <<engineVars, queueVars, fsmVars, wtVars, migVars, splitVars,
              httpVars, regVars, rlVars, sdVars, valVars, metVars>>
exceptMet == <<engineVars, queueVars, fsmVars, wtVars, migVars, splitVars,
               httpVars, regVars, rlVars, sdVars, valVars, rfVars>>

\* ------------------------------------------------------- values and helpers
NoRow == -1

StatusPending == "pending"
StatusCompleted == "completed"
StatusFailed == "failed"
StatusCancelled == "cancelled"

NoOp == [kind |-> "none", user |-> 0, to |-> 0, amount |-> 0]

\* amount DECIMAL(15,2): a value written to the column is rounded to whole
\* cents, halves away from zero.
NumericRound2(m) ==
    IF m >= 0 THEN ((m + 5) \div 10) * 10 ELSE -(((-m + 5) \div 10) * 10)

\* The row a SELECT sees: no uncommitted row of another transaction.
RowOf(u) == dbBal[u]

\* ValidateStatus: the status is one of the four literals.
ValidateStatus(s) == s \in {StatusPending, StatusCompleted, StatusFailed, StatusCancelled}

\* A CanTransition without the table of transitions: any change to another
\* valid status passes.
CanTransitionAnyChange(cur, new) == ValidateStatus(new) /\ cur # new

\* CanTransition: only pending may change, and only to another valid status.
CanTransition(cur, new) ==
    /\ ValidateStatus(new)
    /\ ValidateStatus(cur)
    /\ cur # new
    /\ cur = StatusPending
    /\ new \in {StatusCompleted, StatusFailed, StatusCancelled}

\* SetStatus: the new status when the transition is allowed, else unchanged.
SetStatus(cur, new) == IF CanTransition(cur, new) THEN new ELSE cur

\* TransferRequest.Validate, CreditRequest.Validate, DebitRequest.Validate.
MaxAmount == 1000000 * 1000
\* A limit check that refuses the limit itself.
RequestAmountValidBelowLimit(amount) == amount > 0 /\ amount < MaxAmount
RequestAmountValid(amount) == amount > 0 /\ amount <= MaxAmount
TransferRequestValidate(req) == req.to > 0 /\ RequestAmountValid(req.amount)

\* The body of fn returns an error after marking the transaction failed:
\* WithTransaction will roll back.
FailStep(p) ==
    /\ status' = [status EXCEPT ![p] = SetStatus(status[p], StatusFailed)]
    /\ pc' = [pc EXCEPT ![p] = "rollback"]

\* A funds check that returns the error without marking the transaction.
FailInsufficientUnmarked(p) ==
    /\ pc' = [pc EXCEPT ![p] = "insufficient"]
    /\ UNCHANGED status

\* The funds check failed: transaction.SetStatus(StatusFailed) and fn returns
\* the insufficient-balance error ("yetersiz bakiye"); WithTransaction will
\* roll back.
FailInsufficient(p) ==
    /\ status' = [status EXCEPT ![p] = SetStatus(status[p], StatusFailed)]
    /\ pc' = [pc EXCEPT ![p] = "insufficient"]

\* A statement fails for a reason outside the program (connection lost,
\* statement timeout, ...): the err # nil branch after the statement.
StatementFails(p) ==
    /\ faults < MaxFaults
    /\ faults' = faults + 1
    /\ FailStep(p)

\* SELECT amount FROM balances WHERE user_id = u FOR UPDATE finds the row:
\* enabled once no other transaction holds its lock.
CanLock(p, u) == RowOf(u) # NoRow /\ rowLock[u] \subseteq {p}

\* ----------------------------------------------------------------- Init
EngineInit ==
    /\ dbBal \in [Users -> InitialBalances \cup {NoRow}]
    /\ initBal = dbBal
    /\ dbTx = {}
    /\ dbHist = {}
    /\ txSeq = 0
    /\ rowLock = [u \in Users |-> {}]
    /\ pc = [p \in Procs |-> "idle"]
    /\ op = [p \in Procs |-> NoOp]
    /\ fromBalance = [p \in Procs |-> 0]
    /\ toBalance = [p \in Procs |-> 0]
    /\ currentBalance = [p \in Procs |-> 0]
    /\ transactionID = [p \in Procs |-> 0]
    /\ status = [p \in Procs |-> StatusPending]
    /\ wBal = [p \in Procs |-> [u \in Users |-> NoRow]]
    /\ wTx = [p \in Procs |-> {}]
    /\ result = [p \in Procs |-> "none"]
    /\ ledger = [u \in Users |-> 0]
    /\ faults = 0
    /\ balCreate = {}

\* -------------------------------------------------------- WithTransaction
\* An operation starts: validation, then db.Begin(). The operations are
\* numbered in the order in which they start.
\* valid: the request passed the validation of the service method.
StartOp(p, o, valid, first) ==
    /\ pc[p] = "idle"
    /\ \A q \in Procs : q < p => pc[q] # "idle"
    /\ op' = [op EXCEPT ![p] = o]
    /\ status' = [status EXCEPT ![p] = StatusPending]
    /\ IF ~valid
         THEN /\ pc' = [pc EXCEPT ![p] = "done"]
              /\ result' = [result EXCEPT ![p] = "rejected"]
              /\ UNCHANGED faults
         ELSE \/ /\ faults < MaxFaults
                 /\ faults' = faults + 1
                 /\ pc' = [pc EXCEPT ![p] = "done"]
                 /\ result' = [result EXCEPT ![p] = "error"]
              \/ /\ pc' = [pc EXCEPT ![p] = first]
                 /\ result' = [result EXCEPT ![p] = "none"]
                 /\ UNCHANGED faults
    /\ UNCHANGED exceptEngine
    /\ UNCHANGED <<dbBal, dbTx, dbHist, txSeq, rowLock, fromBalance, toBalance,
                   currentBalance, transactionID, wBal, wTx, initBal, ledger,
                   balCreate>>

\* What a commit makes visible.
CommittedBal(p) == [u \in Users |-> IF wBal[p][u] # NoRow THEN wBal[p][u] ELSE dbBal[u]]

\* The signed request amount of p's operation on account u.
SignedAmount(o, u) ==
    CASE o.kind = "credit" /\ u = o.user -> o.amount
      [] o.kind = "debit" /\ u = o.user -> -o.amount
      [] o.kind = "transfer" /\ u = o.user -> -o.amount
      [] o.kind = "transfer" /\ u = o.to -> o.amount
      [] OTHER -> 0

ReleaseLocks(p) == [u \in Users |-> rowLock[u] \ {p}]

\* The sql.Tx of p ends (committed or rolled back) and fn's locals and the
\* request go out of scope: its locks are released and its uncommitted writes
\* are no more. The in-memory transaction (status) and the result remain.
EndTx(p) ==
    /\ rowLock' = ReleaseLocks(p)
    /\ wBal' = [wBal EXCEPT ![p] = [u \in Users |-> NoRow]]
    /\ wTx' = [wTx EXCEPT ![p] = {}]
    /\ fromBalance' = [fromBalance EXCEPT ![p] = 0]
    /\ toBalance' = [toBalance EXCEPT ![p] = 0]
    /\ currentBalance' = [currentBalance EXCEPT ![p] = 0]
    /\ transactionID' = [transactionID EXCEPT ![p] = 0]
    /\ op' = [op EXCEPT ![p] = NoOp]
    /\ pc' = [pc EXCEPT ![p] = "done"]

\* fn returned nil: tx.Commit(). The writes become visible together, or, when
\* the commit fails, not at all.
Commit(p) ==
    /\ pc[p] = "commit"
    /\ \/ /\ faults < MaxFaults
          /\ faults' = faults + 1
          /\ result' = [result EXCEPT ![p] = "error"]
          /\ UNCHANGED <<dbBal, dbTx, ledger>>
       \/ /\ result' = [result EXCEPT ![p] = "ok"]
          /\ dbBal' = CommittedBal(p)
          /\ dbTx' = dbTx \cup wTx[p]
          /\ ledger' = [u \in Users |-> ledger[u] + SignedAmount(op[p], u)]
          /\ UNCHANGED faults
    /\ EndTx(p)
    /\ UNCHANGED <<dbHist, txSeq, status, initBal, balCreate, exceptEngine>>

\* The error fn returned: the insufficient-balance error of the funds check,
\* or another one.
FnError(p) == IF pc[p] = "insufficient" THEN "insufficient_funds" ELSE "error"

\* A WithTransaction that returns fn's error but ends the sql.Tx by committing
\* what fn wrote so far.
RollbackKeepsWrites(p) ==
    /\ pc[p] \in {"rollback", "insufficient"}
    /\ result' = [result EXCEPT ![p] = FnError(p)]
    /\ dbBal' = CommittedBal(p)
    /\ dbTx' = dbTx \cup wTx[p]
    /\ EndTx(p)
    /\ UNCHANGED <<dbHist, txSeq, status, faults, initBal, ledger, balCreate,
                   exceptEngine>>

\* fn returned an error: tx.Rollback(), and the error is returned.
Rollback(p) ==
    /\ pc[p] \in {"rollback", "insufficient"}
    /\ result' = [result EXCEPT ![p] = FnError(p)]
    /\ EndTx(p)
    /\ UNCHANGED <<dbBal, dbTx, dbHist, txSeq, status, faults, initBal, ledger,
                   balCreate, exceptEngine>>

\* ------------------------------------------------------ statements of fn
\* The steps below share these effects of one SQL statement of the body.

\* Frame of a step that touches only pc, status and the named locals.
StmtFrame ==
    UNCHANGED <<dbBal, dbTx, dbHist, op, result, initBal, ledger, balCreate,
                exceptEngine>>

\* The balances row the statement p is about to run has to wait for, if any:
\* a SELECT ... FOR UPDATE waits for the lock of a row it sees, an INSERT
\* waits for the uncommitted row another transaction inserted under its key.
WaitRow(p) ==
    CASE pc[p] \in {"t_lockFrom", "c_lock", "d_lock"} /\ RowOf(op[p].user) # NoRow
           -> {op[p].user}
      [] pc[p] = "t_lockTo" /\ RowOf(op[p].to) # NoRow -> {op[p].to}
      [] pc[p] = "t_insertTo" -> {op[p].to}
      [] pc[p] = "c_insertBal" -> {op[p].user}
      [] OTHER -> {}

WaitsFor(p, q) == p # q /\ \E u \in WaitRow(p) : q \in rowLock[u]

\* The goroutines p waits for, directly or through others.
RECURSIVE WaitChain(_, _)
WaitChain(seen, n) ==
    IF n = 0 THEN seen
    ELSE WaitChain(seen \cup {q \in Procs : \E r \in seen : WaitsFor(r, q)}, n - 1)

\* p is in a cycle of lock waits. The database detects the deadlock and makes
\* the statement of one goroutine of the cycle fail.
InDeadlock(p) ==
    p \in WaitChain({q \in Procs : WaitsFor(p, q)}, Cardinality(Procs))

\* The lock statement of p returns an error: a fault, or the deadlock victim.
LockFails(p) ==
    \/ StatementFails(p)
    \/ InDeadlock(p) /\ FailStep(p) /\ UNCHANGED faults


\* SELECT ... FOR UPDATE returned the row of u: the lock is taken.
TakeLock(p, u) == rowLock' = [rowLock EXCEPT ![u] = rowLock[u] \cup {p}]

\* user_id is the PRIMARY KEY of balances: an INSERT under a key that has a
\* committed row fails.
DuplicateKey(u) == dbBal[u] # NoRow

\* INSERT INTO balances (user_id, amount) VALUES (u, 0.00) succeeded: the new
\* row is p's until p's transaction ends.
InsertBalanceRow(p, u) ==
    /\ ~DuplicateKey(u)
    /\ rowLock[u] \subseteq {p}
    /\ wBal' = [wBal EXCEPT ![p][u] = NumericRound2(0)]
    /\ TakeLock(p, u)

\* The row INSERT INTO transactions writes. CHECK (amount > 0) is on the
\* stored, rounded amount.
TxRow(id, o, st) ==
    [id |-> id,
     from |-> IF o.kind = "credit" THEN 0 ELSE o.user,
     to |-> IF o.kind = "credit" THEN o.user ELSE o.to,
     amount |-> NumericRound2(o.amount),
     type |-> o.kind,
     status |-> st]

TxAmountCheck(o) == NumericRound2(o.amount) > 0

\* The new balances are computed in float64 (balance + req.Amount, balance -
\* req.Amount) and sent to the DECIMAL(15,2) column as the shortest decimal
\* text of the float64 result, which the column rounds to whole cents.  The
\* float64 result of these pairs <<balance, amount>> lies just below the half
\* cent their exact result is (0.03 + 0.005 = 0.034999999999999996, 0.03 -
\* 0.005 = 0.024999999999999998), so they are stored one cent lower; every
\* other pair of a balance up to 0.20 and an amount of AmountChoices is stored
\* as its exact result rounds.
FloatSumBelowHalf == {<<30, 5>>}
FloatDiffBelowHalf == {<<30, 5>>, <<90, 5>>, <<120, 5>>}

\* What the column holds after UPDATE balances SET amount = balance + amount.
StoredSum(balance, amount) ==
    IF <<balance, amount>> \in FloatSumBelowHalf
      THEN NumericRound2(balance + amount) - 10
      ELSE NumericRound2(balance + amount)

\* What the column holds after UPDATE balances SET amount = balance - amount.
StoredDiff(balance, amount) ==
    IF <<balance, amount>> \in FloatDiffBelowHalf
      THEN NumericRound2(balance - amount) - 10
      ELSE NumericRound2(balance - amount)

\* INSERT INTO transactions ... RETURNING id, with status pending.  The value
\* of the SERIAL sequence is drawn before CHECK (amount > 0) is evaluated, so
\* a refused row uses up an id.  An error marks the transaction failed and
\* makes fn return.
InsertTransaction(p, next) ==
    /\ \/ /\ StatementFails(p)
          /\ UNCHANGED <<txSeq, transactionID, wTx>>
       \/ /\ ~TxAmountCheck(op[p])
          /\ FailStep(p)
          /\ txSeq' = txSeq + 1
          /\ UNCHANGED <<transactionID, wTx, faults>>
       \/ /\ TxAmountCheck(op[p])
          /\ txSeq' = txSeq + 1
          /\ transactionID' = [transactionID EXCEPT ![p] = txSeq + 1]
          /\ wTx' = [wTx EXCEPT ![p] = {TxRow(txSeq + 1, op[p], StatusPending)}]
          /\ pc' = [pc EXCEPT ![p] = next]
          /\ UNCHANGED <<status, faults>>
    /\ UNCHANGED <<rowLock, fromBalance, toBalance, currentBalance, wBal>>
    /\ StmtFrame

\* UPDATE balances SET amount = $1 WHERE user_id = $2 on a row the goroutine
\* holds.  The table's CHECK (amount >= 0) is not a guard here: the service
\* refuses an operation whose new balance would be negative before it
\* reaches the UPDATE (InsufficientFunds).
UpdateBalanceStatement(p, u, newAmount, next) ==
    /\ \/ /\ StatementFails(p)
          /\ UNCHANGED wBal
       \/ /\ wBal' = [wBal EXCEPT ![p][u] = newAmount]
          /\ pc' = [pc EXCEPT ![p] = next]
          /\ UNCHANGED <<status, faults>>
    /\ UNCHANGED <<rowLock, fromBalance, toBalance, currentBalance, txSeq,
                   transactionID, wTx>>
    /\ StmtFrame

\* transaction.SetStatus(StatusCompleted), then UPDATE transactions SET
\* status = $1 WHERE id = $2.  A refused SetStatus and a failed UPDATE make fn
\* return the error; neither marks the transaction failed.
CompleteTransaction(p) ==
    /\ IF CanTransition(status[p], StatusCompleted)
         THEN /\ status' = [status EXCEPT ![p] = SetStatus(status[p], StatusCompleted)]
              /\ \/ /\ faults < MaxFaults
                    /\ faults' = faults + 1
                    /\ pc' = [pc EXCEPT ![p] = "rollback"]
                    /\ UNCHANGED wTx
                 \/ /\ wTx' = [wTx EXCEPT ![p] =
                                 {[r EXCEPT !.status = status'[p]] : r \in @}]
                    /\ pc' = [pc EXCEPT ![p] = "commit"]
                    /\ UNCHANGED faults
         ELSE /\ pc' = [pc EXCEPT ![p] = "rollback"]
              /\ UNCHANGED <<status, wTx, faults>>
    /\ UNCHANGED <<rowLock, fromBalance, toBalance, currentBalance, txSeq,
                   transactionID, wBal>>
    /\ StmtFrame

\* A funds check that only refuses an overdrawn account, regardless of the
\* requested amount.
InsufficientFundsSignOnly(balance, amount) == balance < 0

\* fromBalance < req.Amount, currentBalance < req.Amount.
InsufficientFunds(balance, amount) == balance < amount

\* ------------------------------------------------------------- Transfer
TransferBegin(p) ==
    \E from \in Users, to \in Users, amount \in AmountChoices :
      LET req == [kind |-> "transfer", user |-> from, to |-> to, amount |-> amount]
      IN /\ pc[p] = "idle"
         /\ StartOp(p, req, TransferRequestValidate(req) /\ from # to, "t_lockFrom")

\* 1. lock the sender's row; 2. the sufficient-balance check.
TransferLockFrom(p) ==
    /\ pc[p] = "t_lockFrom"
    /\ \/ /\ LockFails(p)
          /\ UNCHANGED <<rowLock, fromBalance>>
       \/ /\ RowOf(op[p].user) = NoRow
          /\ FailStep(p)
          /\ UNCHANGED <<rowLock, fromBalance, faults>>
       \/ /\ CanLock(p, op[p].user)
          /\ TakeLock(p, op[p].user)
          /\ fromBalance' = [fromBalance EXCEPT ![p] = RowOf(op[p].user)]
          /\ IF InsufficientFunds(fromBalance'[p], op[p].amount)
               THEN FailInsufficient(p)
               ELSE pc' = [pc EXCEPT ![p] = "t_lockTo"] /\ UNCHANGED status
          /\ UNCHANGED faults
    /\ UNCHANGED <<txSeq, toBalance, currentBalance, transactionID, wBal, wTx>>
    /\ StmtFrame

\* 3. lock the recipient's row; sql.ErrNoRows leads to the INSERT.
TransferLockTo(p) ==
    /\ pc[p] = "t_lockTo"
    /\ \/ /\ LockFails(p)
          /\ UNCHANGED <<rowLock, toBalance>>
       \/ /\ RowOf(op[p].to) = NoRow
          /\ pc' = [pc EXCEPT ![p] = "t_insertTo"]
          /\ UNCHANGED <<rowLock, toBalance, status, faults>>
       \/ /\ CanLock(p, op[p].to)
          /\ TakeLock(p, op[p].to)
          /\ toBalance' = [toBalance EXCEPT ![p] = RowOf(op[p].to)]
          /\ pc' = [pc EXCEPT ![p] = "t_apply"]
          /\ UNCHANGED <<status, faults>>
    /\ UNCHANGED <<txSeq, fromBalance, currentBalance, transactionID, wBal, wTx>>
    /\ StmtFrame

\* 3. the recipient has no balance row: insert one with amount 0.
TransferInsertTo(p) ==
    /\ pc[p] = "t_insertTo"
    /\ \/ /\ LockFails(p)
          /\ UNCHANGED <<rowLock, toBalance, wBal>>
       \/ /\ DuplicateKey(op[p].to)
          /\ FailStep(p)
          /\ UNCHANGED <<rowLock, toBalance, wBal, faults>>
       \/ /\ InsertBalanceRow(p, op[p].to)
          /\ toBalance' = [toBalance EXCEPT ![p] = 0]
          /\ pc' = [pc EXCEPT ![p] = "t_apply"]
          /\ UNCHANGED <<status, faults>>
    /\ UNCHANGED <<txSeq, fromBalance, currentBalance, transactionID, wTx>>
    /\ StmtFrame

\* 4. insert the transactions row.
TransferApply(p) ==
    /\ pc[p] = "t_apply"
    /\ InsertTransaction(p, "t_updFrom")

\* 5. newFromBalance := fromBalance - req.Amount, written to the sender's row.
TransferUpdateFrom(p) ==
    /\ pc[p] = "t_updFrom"
    /\ UpdateBalanceStatement(p, op[p].user, StoredDiff(fromBalance[p], op[p].amount),
                              "t_updTo")

\* 5. newToBalance := toBalance + req.Amount, written to the recipient's row.
TransferUpdateTo(p) ==
    /\ pc[p] = "t_updTo"
    /\ UpdateBalanceStatement(p, op[p].to, StoredSum(toBalance[p], op[p].amount),
                              "t_status")

\* SetStatus(completed) and its UPDATE.
TransferComplete(p) ==
    /\ pc[p] = "t_status"
    /\ CompleteTransaction(p)

\* --------------------------------------------------------------- Credit
CreditBegin(p) ==
    \E user \in Users, amount \in AmountChoices :
      LET req == [kind |-> "credit", user |-> user, to |-> 0, amount |-> amount]
      IN /\ pc[p] = "idle"
         /\ StartOp(p, req, RequestAmountValid(amount), "c_lock")

\* 1. lock the user's row; sql.ErrNoRows leads to the INSERT.
CreditLock(p) ==
    /\ pc[p] = "c_lock"
    /\ \/ /\ LockFails(p)
          /\ UNCHANGED <<rowLock, currentBalance>>
       \/ /\ RowOf(op[p].user) = NoRow
          /\ pc' = [pc EXCEPT ![p] = "c_insertBal"]
          /\ UNCHANGED <<rowLock, currentBalance, status, faults>>
       \/ /\ CanLock(p, op[p].user)
          /\ TakeLock(p, op[p].user)
          /\ currentBalance' = [currentBalance EXCEPT ![p] = RowOf(op[p].user)]
          /\ pc' = [pc EXCEPT ![p] = "c_apply"]
          /\ UNCHANGED <<status, faults>>
    /\ UNCHANGED <<txSeq, fromBalance, toBalance, transactionID, wBal, wTx>>
    /\ StmtFrame

\* 1. the user has no balance row: insert one with amount 0.
CreditInsertBalance(p) ==
    /\ pc[p] = "c_insertBal"
    /\ \/ /\ LockFails(p)
          /\ UNCHANGED <<rowLock, currentBalance, wBal>>
       \/ /\ DuplicateKey(op[p].user)
          /\ FailStep(p)
          /\ UNCHANGED <<rowLock, currentBalance, wBal, faults>>
       \/ /\ InsertBalanceRow(p, op[p].user)
          /\ currentBalance' = [currentBalance EXCEPT ![p] = 0]
          /\ pc' = [pc EXCEPT ![p] = "c_apply"]
          /\ UNCHANGED <<status, faults>>
    /\ UNCHANGED <<txSeq, fromBalance, toBalance, transactionID, wTx>>
    /\ StmtFrame

\* 2. insert the transactions row.
CreditApply(p) ==
    /\ pc[p] = "c_apply"
    /\ InsertTransaction(p, "c_upd")

\* 3. newBalance := currentBalance + req.Amount, written to the user's row.
CreditUpdate(p) ==
    /\ pc[p] = "c_upd"
    /\ UpdateBalanceStatement(p, op[p].user, StoredSum(currentBalance[p], op[p].amount),
                              "c_status")

\* SetStatus(completed) and its UPDATE.
CreditComplete(p) ==
    /\ pc[p] = "c_status"
    /\ CompleteTransaction(p)

\* ---------------------------------------------------------------- Debit
DebitBegin(p) ==
    \E user \in Users, amount \in AmountChoices :
      LET req == [kind |-> "debit", user |-> user, to |-> 0, amount |-> amount]
      IN /\ pc[p] = "idle"
         /\ StartOp(p, req, RequestAmountValid(amount), "d_lock")

\* 1. lock the user's row; 2. the sufficient-balance check.
DebitLock(p) ==
    /\ pc[p] = "d_lock"
    /\ \/ /\ LockFails(p)
          /\ UNCHANGED <<rowLock, currentBalance>>
       \/ /\ RowOf(op[p].user) = NoRow
          /\ FailStep(p)
          /\ UNCHANGED <<rowLock, currentBalance, faults>>
       \/ /\ CanLock(p, op[p].user)
          /\ TakeLock(p, op[p].user)
          /\ currentBalance' = [currentBalance EXCEPT ![p] = RowOf(op[p].user)]
          /\ IF InsufficientFunds(currentBalance'[p], op[p].amount)
               THEN FailInsufficient(p)
               ELSE pc' = [pc EXCEPT ![p] = "d_apply"] /\ UNCHANGED status
          /\ UNCHANGED faults
    /\ UNCHANGED <<txSeq, fromBalance, toBalance, transactionID, wBal, wTx>>
    /\ StmtFrame

\* 3. insert the transactions row.
DebitApply(p) ==
    /\ pc[p] = "d_apply"
    /\ InsertTransaction(p, "d_upd")

\* 4. newBalance := currentBalance - req.Amount, written to the user's row.
DebitUpdate(p) ==
    /\ pc[p] = "d_upd"
    /\ UpdateBalanceStatement(p, op[p].user, StoredDiff(currentBalance[p], op[p].amount),
                              "d_status")

\* SetStatus(completed) and its UPDATE.
DebitComplete(p) ==
    /\ pc[p] = "d_status"
    /\ CompleteTransaction(p)

\* ------------------------------------------------------------ GetBalance
\* BalanceService.GetBalance: BalanceRepository.GetByUserID on the connection
\* pool, outside any transaction.  SELECT ... FROM balances WHERE user_id = u
\* finds no row (a read that finds the row changes nothing): CreateBalance is
\* to run.
GetByUserID(u) ==
    /\ u \notin balCreate
    /\ RowOf(u) = NoRow
    /\ balCreate' = balCreate \cup {u}
    /\ UNCHANGED <<dbBal, dbTx, dbHist, txSeq, rowLock, pc, op, fromBalance,
                   toBalance, currentBalance, transactionID, status, wBal, wTx,
                   result, faults, initBal, ledger>>
    /\ UNCHANGED exceptEngine

\* INSERT INTO balances (user_id, amount) VALUES (u, 0.00), committed at once.
\* It waits for a transaction that has inserted a row under the key; with a
\* committed row under the key it fails and GetBalance returns the error.
CreateBalance(u) ==
    /\ u \in balCreate
    /\ rowLock[u] = {}
    /\ balCreate' = balCreate \ {u}
    /\ dbBal' = IF DuplicateKey(u) THEN dbBal
                ELSE [dbBal EXCEPT ![u] = NumericRound2(0)]
    /\ UNCHANGED <<dbTx, dbHist, txSeq, rowLock, pc, op, fromBalance,
                   toBalance, currentBalance, transactionID, status, wBal, wTx,
                   result, faults, initBal, ledger>>
    /\ UNCHANGED exceptEngine

\* ------------------------------------------- direct calls of the repositories
\* TransactionRepository.Create, TransactionRepository.UpdateStatus and
\* BalanceRepository.UpdateBalance (through BalanceService.UpdateBalance) run
\* one statement on the connection pool, committed at once.  No handler and
\* no service method of the program calls them; they are what a caller of
\* the packages can do to the tables.
MaxRepoCalls == 2

\* INSERT INTO transactions ... RETURNING id with the fields of tx.
TransactionRepositoryCreate(o, st) ==
    /\ txSeq < MaxRepoCalls
    /\ txSeq' = txSeq + 1
    /\ dbTx' = IF TxAmountCheck(o) /\ ValidateStatus(st)
                 THEN dbTx \cup {TxRow(txSeq + 1, o, st)}
                 ELSE dbTx
    /\ UNCHANGED <<dbBal, dbHist, rowLock, pc, op, fromBalance, toBalance,
                   currentBalance, transactionID, status, wBal, wTx, result,
                   faults, initBal, ledger, balCreate>>
    /\ UNCHANGED exceptEngine

\* UPDATE transactions SET status = $1 WHERE id = $2; no row affected is an
\* error, and so is a status the CHECK of the column refuses.
TransactionRepositoryUpdateStatus(id, st) ==
    /\ \E r \in dbTx : r.id = id
    /\ dbTx' = IF ValidateStatus(st)
                 THEN {IF r.id = id THEN [r EXCEPT !.status = st] ELSE r : r \in dbTx}
                 ELSE dbTx
    /\ UNCHANGED <<dbBal, dbHist, txSeq, rowLock, pc, op, fromBalance, toBalance,
                   currentBalance, transactionID, status, wBal, wTx, result,
                   faults, initBal, ledger, balCreate>>
    /\ UNCHANGED exceptEngine

\* UPDATE balances SET amount = $1 WHERE user_id = $2: it waits for the lock
\* of the row; CHECK (amount >= 0) refuses a negative amount.
UpdateBalance(u, newAmount) ==
    /\ RowOf(u) # NoRow
    /\ rowLock[u] = {}
    /\ dbBal' = IF NumericRound2(newAmount) >= 0
                 THEN [dbBal EXCEPT ![u] = NumericRound2(newAmount)]
                 ELSE dbBal
    /\ UNCHANGED <<dbTx, dbHist, txSeq, rowLock, pc, op, fromBalance, toBalance,
                   currentBalance, transactionID, status, wBal, wTx, result,
                   faults, initBal, ledger, balCreate>>
    /\ UNCHANGED exceptEngine

RepoRequests ==
    [kind : {"credit", "transfer"}, user : Users, to : Users, amount : AmountChoices]

RepoNext ==
    \/ \E o \in RepoRequests, st \in {StatusPending, StatusCompleted, "done"} :
          TransactionRepositoryCreate(o, st)
    \/ \E id \in 1..MaxRepoCalls, st \in {StatusCompleted, StatusFailed, "done"} :
          TransactionRepositoryUpdateStatus(id, st)
    \/ \E u \in Users, newAmount \in {-10, 0, 5, 20} : UpdateBalance(u, newAmount)

\* ===================================================== transaction queue
\* The state of the queue right after NewTransactionQueue.
QueueInit ==
    /\ started = FALSE
    /\ jobChan = <<>>
    /\ chanClosed = FALSE
    /\ stopState = "running"
    /\ wgCount = 0
    /\ wState = [w \in Workers |-> "idle"]
    /\ wJob = [w \in Workers |-> 0]
    /\ caller = [j \in Jobs |-> "new"]
    /\ resultChan = [j \in Jobs |-> <<>>]
    /\ resultClosed = [j \in Jobs |-> FALSE]
    /\ overflow = [j \in Jobs |-> FALSE]
    /\ received = [j \in Jobs |-> "none"]
    /\ answer = [j \in Jobs |-> 0]
    /\ accepted = <<>>
    /\ dequeued = <<>>
    /\ finished = <<>>
    /\ sent = [j \in Jobs |-> 0]

\* Start: wg.Add(1) and go q.worker(i) for each of the workers.
Start ==
    /\ ~started
    /\ started' = TRUE
    /\ wgCount' = wgCount + NumWorkers
    /\ wState' = [w \in Workers |-> "waiting"]
    /\ UNCHANGED <<jobChan, chanClosed, stopState, wJob, caller, resultChan,
                   resultClosed, overflow, received, answer, accepted, dequeued, finished,
                   sent>>
    /\ UNCHANGED exceptQueue

\* A receive that takes the job sent last.
ChanRecvNewest(ch) == ch[Len(ch)]

\* A receive from the job channel takes the oldest job in its buffer.
ChanRecv(ch) == Head(ch)

\* job.ResultChan <- TransactionResult{...}; close(job.ResultChan).
SendResult(j, r) ==
    /\ Len(resultChan[j]) < 1
    /\ ~resultClosed[j]
    /\ resultChan' = [resultChan EXCEPT ![j] = Append(@, r)]
    /\ resultClosed' = [resultClosed EXCEPT ![j] = TRUE]
    /\ sent' = [sent EXCEPT ![j] = @ + 1]

\* What the Transfer handler answers for the result it received.
TransferAnswer(r) == IF r = "committed" THEN 201 ELSE 400

\* What the client of a handler that panicked gets: the panic leaves the
\* handler, the error middleware recovers it and, a runtime error being no
\* APIError, answers with StatusInternalServerError.
PanicAnswer == 500

\* An AddJob whose send has no default case: the caller waits for room in the
\* channel.
AddJobBlockingSend(j) ==
    /\ started
    /\ caller[j] = "new"
    /\ \A i \in Jobs : i < j => caller[i] # "new"
    /\ IF chanClosed
         THEN /\ caller' = [caller EXCEPT ![j] = "panicked"]
              /\ answer' = [answer EXCEPT ![j] = PanicAnswer]
              /\ UNCHANGED <<jobChan, accepted>>
         ELSE /\ Len(jobChan) < BufferSize
              /\ caller' = [caller EXCEPT ![j] = "waiting"]
              /\ jobChan' = Append(jobChan, j)
              /\ accepted' = Append(accepted, j)
              /\ UNCHANGED answer
    /\ UNCHANGED <<started, chanClosed, stopState, wgCount, wState, wJob, overflow,
                   resultChan, resultClosed, received, dequeued, finished, sent>>
    /\ UNCHANGED exceptQueue

\* AddJob: the select with a default case. The handler then waits on the
\* returned channel. A send on a closed channel panics.
AddJob(j) ==
    /\ started
    /\ caller[j] = "new"
    /\ \A i \in Jobs : i < j => caller[i] # "new"
    /\ IF chanClosed
         THEN /\ caller' = [caller EXCEPT ![j] = "panicked"]
              /\ answer' = [answer EXCEPT ![j] = PanicAnswer]
              /\ UNCHANGED <<jobChan, overflow, accepted>>
         ELSE /\ caller' = [caller EXCEPT ![j] = "waiting"]
              /\ UNCHANGED answer
              /\ IF Len(jobChan) < BufferSize
                   THEN /\ jobChan' = Append(jobChan, j)
                        /\ accepted' = Append(accepted, j)
                        /\ UNCHANGED overflow
                   ELSE /\ overflow' = [overflow EXCEPT ![j] = TRUE]
                        /\ UNCHANGED <<jobChan, accepted>>
    /\ UNCHANGED <<started, chanClosed, stopState, wgCount, wState, wJob,
                   resultChan, resultClosed, received, dequeued, finished, sent>>
    /\ UNCHANGED exceptQueue

\* The goroutine of AddJob's default case sends the queue-full error and
\* closes the result channel.
OverflowSend(j) ==
    /\ overflow[j]
    /\ SendResult(j, "queue_full")
    /\ overflow' = [overflow EXCEPT ![j] = FALSE]
    /\ UNCHANGED <<started, jobChan, chanClosed, stopState, wgCount, wState, wJob,
                   caller, received, answer, accepted, dequeued, finished>>
    /\ UNCHANGED exceptQueue

\* The handler's result := <-resultChan, and its answer: http.Error with
\* StatusBadRequest when result.Error is not nil, else StatusCreated.
CallerReceive(j) ==
    /\ caller[j] = "waiting"
    /\ resultChan[j] # <<>>
    /\ received' = [received EXCEPT ![j] = Head(resultChan[j])]
    /\ answer' = [answer EXCEPT ![j] = TransferAnswer(Head(resultChan[j]))]
    /\ resultChan' = [resultChan EXCEPT ![j] = Tail(@)]
    /\ caller' = [caller EXCEPT ![j] = "received"]
    /\ UNCHANGED <<started, jobChan, chanClosed, stopState, wgCount, wState, wJob,
                   resultClosed, overflow, accepted, dequeued, finished, sent>>
    /\ UNCHANGED exceptQueue

\* worker: for job := range q.jobChan takes the next job.
WorkerDequeue(w) ==
    /\ wState[w] = "waiting"
    /\ jobChan # <<>>
    /\ LET job == ChanRecv(jobChan)
       IN /\ wJob' = [wJob EXCEPT ![w] = job]
          /\ jobChan' = SelectSeq(jobChan, LAMBDA x : x # job)
          /\ dequeued' = Append(dequeued, job)
    /\ wState' = [wState EXCEPT ![w] = "processing"]
    /\ UNCHANGED <<started, chanClosed, stopState, wgCount, caller, resultChan,
                   resultClosed, overflow, received, answer, accepted, finished, sent>>
    /\ UNCHANGED exceptQueue

\* worker: q.service.Transfer returned a transaction or an error; the result
\* is sent and the result channel closed; the loop goes on.
WorkerFinish(w) ==
    /\ wState[w] = "processing"
    /\ \E r \in {"committed", "error"} : SendResult(wJob[w], r)
    /\ finished' = Append(finished, wJob[w])
    /\ wState' = [wState EXCEPT ![w] = "waiting"]
    /\ wJob' = [wJob EXCEPT ![w] = 0]
    /\ UNCHANGED <<started, jobChan, chanClosed, stopState, wgCount, caller,
                   overflow, received, answer, accepted, dequeued>>
    /\ UNCHANGED exceptQueue

\* worker: q.service.Transfer panics. The deferred recover logs the panic and
\* the deferred wg.Done runs: worker returns.
WorkerPanic(w) ==
    /\ wState[w] = "processing"
    /\ wState' = [wState EXCEPT ![w] = "exited"]
    /\ wJob' = [wJob EXCEPT ![w] = 0]
    /\ wgCount' = wgCount - 1
    /\ UNCHANGED <<started, jobChan, chanClosed, stopState, caller, resultChan,
                   resultClosed, overflow, received, answer, accepted, dequeued, finished,
                   sent>>
    /\ UNCHANGED exceptQueue

\* worker: the range loop ends once the channel is closed and empty; the
\* deferred wg.Done runs.
WorkerExit(w) ==
    /\ wState[w] = "waiting"
    /\ chanClosed
    /\ jobChan = <<>>
    /\ wState' = [wState EXCEPT ![w] = "exited"]
    /\ wgCount' = wgCount - 1
    /\ UNCHANGED <<started, jobChan, chanClosed, stopState, wJob, caller,
                   resultChan, resultClosed, overflow, received, answer, accepted, dequeued,
                   finished, sent>>
    /\ UNCHANGED exceptQueue

\* Stop: close(q.jobChan), then it waits in q.wg.Wait().
StopClose ==
    /\ started
    /\ stopState = "running"
    /\ chanClosed' = TRUE
    /\ stopState' = "waiting"
    /\ UNCHANGED <<started, jobChan, wgCount, wState, wJob, caller, resultChan,
                   resultClosed, overflow, received, answer, accepted, dequeued, finished,
                   sent>>
    /\ UNCHANGED exceptQueue

\* Stop: q.wg.Wait() returns once the counter is zero.
StopReturn ==
    /\ stopState = "waiting"
    /\ wgCount = 0
    /\ stopState' = "stopped"
    /\ UNCHANGED <<started, jobChan, chanClosed, wgCount, wState, wJob, caller,
                   resultChan, resultClosed, overflow, received, answer, accepted, dequeued,
                   finished, sent>>
    /\ UNCHANGED exceptQueue

QueueNext ==
    \/ Start
    \/ \E j \in Jobs : AddJob(j) \/ OverflowSend(j) \/ CallerReceive(j)
    \/ \E w \in Workers : WorkerDequeue(w) \/ WorkerFinish(w) \/ WorkerPanic(w)
                            \/ WorkerExit(w)
    \/ StopClose
    \/ StopReturn

\* ==================================================== transaction status
\* The statuses a caller may ask for: the four of the model, one no code
\* defines, and the empty string.
RequestedStatuses ==
    {StatusPending, StatusCompleted, StatusFailed, StatusCancelled, "refunded", ""}

NoCall == [obj |-> 0, new |-> "", err |-> FALSE]

\* Transaction objects as the factories make them (pending) or as read back
\* from the transactions table, whose CHECK admits the four statuses.
FsmInit ==
    /\ txStatus \in [TxObjs -> {StatusPending, StatusCompleted, StatusFailed,
                                StatusCancelled}]
    /\ lastCall = NoCall
    /\ statusChanges = [t \in TxObjs |-> 0]
    /\ setCalls = 0

\* The components at rest while another one runs.
FsmIdle ==
    /\ FsmInit
    /\ txStatus = [t \in TxObjs |-> StatusPending]

\* t.SetStatus(new): the error of CanTransition, else the assignment.
SetStatusCall(t, new) ==
    /\ setCalls < MaxSetCalls
    /\ setCalls' = setCalls + 1
    /\ txStatus' = [txStatus EXCEPT ![t] = SetStatus(@, new)]
    /\ lastCall' = [obj |-> t, new |-> new, err |-> ~CanTransition(txStatus[t], new)]
    /\ statusChanges' = [statusChanges EXCEPT
                           ![t] = IF txStatus'[t] # txStatus[t] THEN @ + 1 ELSE @]
    /\ UNCHANGED exceptFsm

FsmNext == \E t \in TxObjs, new \in RequestedStatuses : SetStatusCall(t, new)

\* ============================================ WithTransaction, any body
\* How a body fn can end: it returns nil, returns one of two errors, or
\* panics with one of two values.
NoOutcome == [kind |-> "none", val |-> ""]
BodyOutcomes ==
    {[kind |-> "nil", val |-> ""]}
      \cup {[kind |-> "error", val |-> e] : e \in {"e1", "e2"}}
      \cup {[kind |-> "panic", val |-> v] : v \in {"p1", "p2"}}

NoReturn == [kind |-> "none", cause |-> "", wrapped |-> FALSE]

WtInit ==
    /\ wtPc = [c \in Callers |-> "idle"]
    /\ wtTx = [c \in Callers |-> "none"]
    /\ wtBody = [c \in Callers |-> NoOutcome]
    /\ wtRet = [c \in Callers |-> NoReturn]
    /\ wtFinish = [c \in Callers |-> <<>>]
    /\ wtVisible = {}

\* tx, err := db.Begin(): the transaction opens, or the error is returned.
WtBegin(c) ==
    /\ wtPc[c] = "idle"
    /\ \/ /\ wtTx' = [wtTx EXCEPT ![c] = "open"]
          /\ wtPc' = [wtPc EXCEPT ![c] = "body"]
          /\ UNCHANGED wtRet
       \/ /\ wtRet' = [wtRet EXCEPT ![c] = [kind |-> "error", cause |-> "begin",
                                            wrapped |-> TRUE]]
          /\ wtPc' = [wtPc EXCEPT ![c] = "returned"]
          /\ UNCHANGED wtTx
    /\ UNCHANGED <<wtBody, wtFinish, wtVisible, exceptWt>>

\* fn(tx) runs and ends.
WtBody(c) ==
    /\ wtPc[c] = "body"
    /\ \E o \in BodyOutcomes : wtBody' = [wtBody EXCEPT ![c] = o]
    /\ wtPc' = [wtPc EXCEPT ![c] = "afterBody"]
    /\ UNCHANGED <<wtTx, wtRet, wtFinish, wtVisible, exceptWt>>

\* tx.Rollback(): whether or not it returns an error, the transaction is over
\* and its writes are discarded.
WtRollback(c) ==
    /\ wtTx' = [wtTx EXCEPT ![c] = IF @ = "open" THEN "rolledback" ELSE @]
    /\ wtFinish' = [wtFinish EXCEPT ![c] = Append(@, "rollback")]
    /\ UNCHANGED wtVisible

\* A deferred function that recovers the panic and logs it but leaves the
\* transaction as it is.
WtRecoverNoRollback(c) ==
    /\ wtPc[c] = "afterBody"
    /\ wtBody[c].kind = "panic"
    /\ wtPc' = [wtPc EXCEPT ![c] = "recovered"]
    /\ UNCHANGED <<wtTx, wtFinish, wtVisible>>
    /\ UNCHANGED <<wtBody, wtRet, exceptWt>>

\* fn panicked: the deferred function recovers the panic and rolls back.
WtRecover(c) ==
    /\ wtPc[c] = "afterBody"
    /\ wtBody[c].kind = "panic"
    /\ WtRollback(c)
    /\ wtPc' = [wtPc EXCEPT ![c] = "recovered"]
    /\ UNCHANGED <<wtBody, wtRet, exceptWt>>

\* panic(r): the recovered value is raised again.
WtRepanic(c) ==
    /\ wtPc[c] = "recovered"
    /\ wtRet' = [wtRet EXCEPT ![c] = [kind |-> "panic", cause |-> wtBody[c].val,
                                      wrapped |-> FALSE]]
    /\ wtPc' = [wtPc EXCEPT ![c] = "returned"]
    /\ UNCHANGED <<wtTx, wtBody, wtFinish, wtVisible, exceptWt>>

\* fn returned an error: tx.Rollback(); the error is returned, wrapped (%w)
\* together with the rollback error when the rollback failed.
WtError(c) ==
    /\ wtPc[c] = "afterBody"
    /\ wtBody[c].kind = "error"
    /\ WtRollback(c)
    /\ \E rollbackFailed \in BOOLEAN :
         wtRet' = [wtRet EXCEPT ![c] = [kind |-> "error", cause |-> wtBody[c].val,
                                        wrapped |-> rollbackFailed]]
    /\ wtPc' = [wtPc EXCEPT ![c] = "returned"]
    /\ UNCHANGED <<wtBody, exceptWt>>

\* fn returned nil: tx.Commit(); nil is returned, or the wrapped commit error
\* when the commit failed, in which case nothing was committed.
WtCommit(c) ==
    /\ wtPc[c] = "afterBody"
    /\ wtBody[c].kind = "nil"
    /\ wtFinish' = [wtFinish EXCEPT ![c] = Append(@, "commit")]
    /\ \/ /\ wtTx' = [wtTx EXCEPT ![c] = "committed"]
          /\ wtVisible' = wtVisible \cup {c}
          /\ wtRet' = [wtRet EXCEPT ![c] = [kind |-> "nil", cause |-> "",
                                            wrapped |-> FALSE]]
       \/ /\ wtTx' = [wtTx EXCEPT ![c] = "rolledback"]
          /\ UNCHANGED wtVisible
          /\ wtRet' = [wtRet EXCEPT ![c] = [kind |-> "error", cause |-> "commit",
                                            wrapped |-> TRUE]]
    /\ wtPc' = [wtPc EXCEPT ![c] = "returned"]
    /\ UNCHANGED <<wtBody, exceptWt>>

WtNext ==
    \E c \in Callers :
      \/ WtBegin(c)
      \/ WtBody(c)
      \/ WtRecover(c)
      \/ WtRepanic(c)
      \/ WtError(c)
      \/ WtCommit(c)

\* ====================================================== migration runner
\* The files of the migrations directory carry 6-digit ordinals, as those of
\* the repository do.
NoFile == 0
VersionBase == 1000000

\* The checksum of a file whose content is blank (strings.TrimSpace gives "");
\* the checksums of written files are above it.
BlankSQL == 1

\* parseMigrationFile: a 6-digit version is prefixed with today's YYYYMMDD.
NormalizeVersion(ord, day) == day * VersionBase + ord

\* The ordinal of the migration file a recorded version came from.
FileOf(version) == version % VersionBase

\* DefaultConfig, in the fields the runner branches on.
DefaultConfig ==
    [validateChecksums |-> TRUE, allowDirty |-> FALSE, requireDown |-> FALSE,
     dryRun |-> FALSE]

\* CLIConfig and ProductionConfig: DOWN files are required.
CLIConfig == [DefaultConfig EXCEPT !.requireDown = TRUE]

\* DevelopmentConfig and TestConfig: no checksum validation, dirty files
\* allowed.
DevelopmentConfig ==
    [DefaultConfig EXCEPT !.validateChecksums = FALSE, !.allowDirty = TRUE]

\* The configurations a run can have: those the constructors return, and
\* DefaultConfig with one field set by the caller.
Configs ==
    {DefaultConfig, CLIConfig, DevelopmentConfig,
     [DefaultConfig EXCEPT !.validateChecksums = FALSE],
     [DefaultConfig EXCEPT !.allowDirty = TRUE],
     [DefaultConfig EXCEPT !.dryRun = TRUE]}

NoConfig ==
    [validateChecksums |-> FALSE, allowDirty |-> FALSE, requireDown |-> FALSE,
     dryRun |-> FALSE]

\* parseMigrationFile fails on a file without DOWN when RequireDownFiles is
\* set, and LoadMigrationsFromDisk leaves such a file out.
ParseFails(m, cfg) == cfg.requireDown /\ fileDown[m] = NoFile

ParseMigrationFile(m) ==
    [version |-> NormalizeVersion(m, today),
     ord |-> m,
     upChecksum |-> fileUp[m],
     downChecksum |-> fileDown[m],
     hasDownFile |-> fileDown[m] # NoFile,
     downBlank |-> fileDown[m] = BlankSQL,
     applied |-> FALSE]

\* The ordinals in ascending order.
RECURSIVE OrdSeq(_)
OrdSeq(n) == IF n = 0 THEN <<>> ELSE Append(OrdSeq(n - 1), n)

\* LoadMigrationsFromDisk: the files that parse, sorted by version.
LoadMigrationsFromDisk(cfg) ==
    LET parsed == SelectSeq(OrdSeq(NumMigrations), LAMBDA m : ~ParseFails(m, cfg))
    IN [i \in 1..Len(parsed) |-> ParseMigrationFile(parsed[i])]

\* The row of schema_migrations with a version: version is its PRIMARY KEY.
AppliedRow(v) == CHOOSE r \in track : r.version = v

\* validateChecksums: the error, as a boolean.
ValidateChecksumsFails(f, r) ==
    \/ f.upChecksum # r.upChecksum
    \/ f.hasDownFile /\ r.downChecksum # NoFile /\ f.downChecksum # r.downChecksum

\* LoadMigrationsWithStatus returns an error: a recorded migration fails the
\* checksum validation and AllowDirtyMigrate is off.
LoadRejects(cfg) ==
    LET ms == LoadMigrationsFromDisk(cfg)
    IN /\ cfg.validateChecksums
       /\ ~cfg.allowDirty
       /\ \E i \in 1..Len(ms) :
            /\ \E r \in track : r.version = ms[i].version
            /\ ValidateChecksumsFails(ms[i], AppliedRow(ms[i].version))

\* LoadMigrationsWithStatus: the files with their applied flag.
LoadMigrationsWithStatus(cfg) ==
    LET ms == LoadMigrationsFromDisk(cfg)
    IN [i \in 1..Len(ms) |->
          [ms[i] EXCEPT !.applied = \E r \in track : r.version = ms[i].version]]

MigInit ==
    /\ today = 1
    /\ fileUp = [m \in Migs |-> 2]
    /\ fileDown \in [Migs -> {NoFile, BlankSQL, 2}]
    /\ edits = 0
    /\ dbSchema = {}
    /\ track = {}
    /\ trackTable = FALSE
    /\ mPc = "idle"
    /\ mCfg = NoConfig
    /\ mTarget = 0
    /\ mDir = "up"
    /\ mList = <<>>
    /\ mIdx = 0
    /\ mResults = <<>>
    /\ mErr = "none"
    /\ txSchema = {}
    /\ txTrack = {}
    /\ runs = 0

\* The runner at rest with every migration file having its DOWN file.
MigIdle ==
    /\ MigInit
    /\ fileDown = [m \in Migs |-> 2]

\* The versions a caller may name as target: none (0), and the versions of
\* the files as of today.
Targets == {0} \cup {NormalizeVersion(m, today) : m \in Migs}

\* What a run call leaves alone.
RunFrame == UNCHANGED <<today, fileUp, fileDown, edits, dbSchema, track, txSchema,
                        txTrack, exceptMig>>

\* Initialize: CREATE TABLE IF NOT EXISTS schema_migrations, sent on the
\* connection pool, whatever the configuration.
Initialize == trackTable' = TRUE

\* Runner.Initialize called by itself, as the command init and the start-up
\* of the application call it (in production no RunUp follows): the table is
\* there afterwards unless the statement failed, and no run has been made.
InitializeCall(ok) ==
    /\ mPc = "idle"
    /\ IF ok THEN Initialize ELSE UNCHANGED trackTable
    /\ UNCHANGED <<mPc, mCfg, mTarget, mDir, mList, mIdx, mResults, mErr, runs>>
    /\ RunFrame

\* RunUp(target): Initialize, LoadMigrationsWithStatus, then the loop from
\* the first migration.
RunUpCall(target, cfg) ==
    /\ mPc = "idle"
    /\ runs < MaxRuns
    /\ runs' = runs + 1
    /\ mCfg' = cfg
    /\ mTarget' = target
    /\ mDir' = "up"
    /\ mResults' = <<>>
    /\ \/ /\ mErr' = "initialize"
          /\ mPc' = "idle"
          /\ mList' = <<>>
          /\ mIdx' = 0
          /\ UNCHANGED trackTable
       \/ /\ Initialize
          /\ mErr' = "load"
          /\ mPc' = "idle"
          /\ mList' = <<>>
          /\ mIdx' = 0
       \/ /\ Initialize
          /\ LoadRejects(cfg)
          /\ mErr' = "checksum"
          /\ mPc' = "idle"
          /\ mList' = <<>>
          /\ mIdx' = 0
       \/ /\ Initialize
          /\ ~LoadRejects(cfg)
          /\ mErr' = "none"
          /\ mPc' = "up"
          /\ mList' = LoadMigrationsWithStatus(cfg)
          /\ mIdx' = 1
    /\ RunFrame

\* RunDown(target): LoadMigrationsWithStatus, then the loop from the last
\* migration.
RunDownCall(target, cfg) ==
    /\ mPc = "idle"
    /\ runs < MaxRuns
    /\ runs' = runs + 1
    /\ mCfg' = cfg
    /\ mTarget' = target
    /\ mDir' = "down"
    /\ mResults' = <<>>
    /\ \/ /\ mErr' = "load"
          /\ mPc' = "idle"
          /\ mList' = <<>>
          /\ mIdx' = 0
       \/ /\ LoadRejects(cfg)
          /\ mErr' = "checksum"
          /\ mPc' = "idle"
          /\ mList' = <<>>
          /\ mIdx' = 0
       \/ /\ ~LoadRejects(cfg)
          /\ mErr' = "none"
          /\ mPc' = "down"
          /\ mList' = LoadMigrationsWithStatus(cfg)
          /\ mIdx' = Len(mList')
    /\ UNCHANGED trackTable
    /\ RunFrame

\* A MigrationResult.
Result(m, dir, ok) == [version |-> m.version, ord |-> m.ord, direction |-> dir,
                       success |-> ok]

\* The run returns its results.
RunReturns ==
    /\ mPc' = "idle"
    /\ txSchema' = {}
    /\ txTrack' = {}

\* What a step of a run leaves alone.
StepFrame == UNCHANGED <<today, fileUp, fileDown, edits, trackTable, mCfg, mTarget,
                         mDir, mList, mErr, runs, exceptMig>>

\* executeMigration up to BeginTx, for the migration at index i: a DOWN
\* script that is blank fails the migration and with it the run; else a dry
\* run succeeds without touching the database and the loop goes on at index
\* next; else the transaction opens, or the failure to open it ends the run.
ExecuteMigrationStart(i, next) ==
    IF mDir = "down" /\ mList[i].downBlank
      THEN /\ mResults' = Append(mResults, Result(mList[i], mDir, FALSE))
           /\ mIdx' = i
           /\ RunReturns
    ELSE IF mCfg.dryRun
      THEN /\ mResults' = Append(mResults, Result(mList[i], mDir, TRUE))
           /\ mIdx' = next
           /\ UNCHANGED <<mPc, txSchema, txTrack>>
      ELSE \/ /\ mResults' = Append(mResults, Result(mList[i], mDir, FALSE))
              /\ mIdx' = i
              /\ RunReturns
           \/ /\ mPc' = "sql"
              /\ mIdx' = i
              /\ txSchema' = dbSchema
              /\ txTrack' = track
              /\ UNCHANGED mResults

\* The index of the first migration from i on that is not applied, 0 if none.
RECURSIVE UpScan(_)
UpScan(i) ==
    IF i > Len(mList) THEN 0
    ELSE IF mList[i].applied THEN UpScan(i + 1)
    ELSE i

\* The loop of RunUp: applied migrations are passed over, a version above the
\* target ends the loop, every other migration is executed.
UpLoop ==
    /\ mPc = "up"
    /\ LET i == UpScan(mIdx)
       IN IF i = 0 \/ (mTarget > 0 /\ mList[i].version > mTarget)
            THEN /\ RunReturns
                 /\ UNCHANGED <<mIdx, mResults>>
            ELSE ExecuteMigrationStart(i, i + 1)
    /\ UNCHANGED <<dbSchema, track>>
    /\ StepFrame

\* The loop of RunDown from index i downwards: what it does next and at which
\* index. Migrations not applied are passed over, a version at or below the
\* target ends the loop, an applied migration without DOWN file fails the run
\* when RequireDownFiles is set and is passed over otherwise. The list of a
\* run with RequireDownFiles holds no migration without DOWN file, for
\* ParseFails leaves them out, so the failing branch is never taken.
RECURSIVE DownScan(_)
DownScan(i) ==
    IF i = 0 THEN [do |-> "end", idx |-> 0]
    ELSE IF ~mList[i].applied THEN DownScan(i - 1)
    ELSE IF mList[i].version <= mTarget THEN [do |-> "end", idx |-> i]
    ELSE IF ~mList[i].hasDownFile
           THEN IF mCfg.requireDown THEN [do |-> "fail", idx |-> i]
                ELSE DownScan(i - 1)
    ELSE [do |-> "exec", idx |-> i]

DownLoop ==
    /\ mPc = "down"
    /\ LET d == DownScan(mIdx)
       IN CASE d.do = "end" ->
                 /\ RunReturns
                 /\ UNCHANGED <<mIdx, mResults>>
            [] d.do = "fail" ->
                 /\ mResults' = Append(mResults, Result(mList[d.idx], "down", FALSE))
                 /\ RunReturns
                 /\ UNCHANGED mIdx
            [] d.do = "exec" -> ExecuteMigrationStart(d.idx, d.idx - 1)
    /\ UNCHANGED <<dbSchema, track>>
    /\ StepFrame

\* A loop that goes on to the next migration after a failed one.
ExecFailsGoesOn ==
    /\ mResults' = Append(mResults, Result(mList[mIdx], mDir, FALSE))
    /\ mPc' = mDir
    /\ mIdx' = IF mDir = "up" THEN mIdx + 1 ELSE mIdx - 1
    /\ txSchema' = {}
    /\ txTrack' = {}
    /\ UNCHANGED <<dbSchema, track>>

\* A step of executeMigration fails: the result carries the error, the
\* deferred tx.Rollback discards the writes, and the run stops.
ExecFails ==
    /\ mResults' = Append(mResults, Result(mList[mIdx], mDir, FALSE))
    /\ RunReturns
    /\ UNCHANGED <<mIdx, dbSchema, track>>

\* executeSQL: the statements of the script run in the transaction.
ExecSQL ==
    /\ mPc = "sql"
    /\ \/ ExecFails
       \/ /\ txSchema' = IF mDir = "up" THEN txSchema \cup {mList[mIdx].ord}
                         ELSE txSchema \ {mList[mIdx].ord}
          /\ mPc' = "record"
          /\ UNCHANGED <<mIdx, mResults, dbSchema, track, txTrack>>
    /\ StepFrame

\* The row recordMigrationInTx inserts.
TrackRow(m) ==
    [version |-> m.version, upChecksum |-> m.upChecksum,
     downChecksum |-> IF m.hasDownFile THEN m.downChecksum ELSE NoFile]

\* The tracking statement sent on the connection pool, as RecordMigration and
\* DeleteMigrationRecord send it, instead of on the transaction.
ExecRecordOutsideTx ==
    /\ mPc = "record"
    /\ LET m == mList[mIdx]
           recorded == \E r \in track : r.version = m.version
       IN \/ ExecFails
          \/ /\ (mDir = "up" /\ recorded) \/ (mDir = "down" /\ ~recorded)
             /\ ExecFails
          \/ /\ mDir = "up" /\ ~recorded
             /\ track' = track \cup {TrackRow(m)}
             /\ txTrack' = track'
             /\ mPc' = "commit"
             /\ UNCHANGED <<mIdx, mResults, dbSchema, txSchema>>
          \/ /\ mDir = "down" /\ recorded
             /\ track' = {r \in track : r.version # m.version}
             /\ txTrack' = track'
             /\ mPc' = "commit"
             /\ UNCHANGED <<mIdx, mResults, dbSchema, txSchema>>
    /\ StepFrame

\* recordMigrationInTx (UP): the INSERT fails on a version already recorded.
\* deleteMigrationRecordInTx (DOWN): no row deleted is an error.
ExecRecord ==
    /\ mPc = "record"
    /\ LET m == mList[mIdx]
           recorded == \E r \in txTrack : r.version = m.version
       IN \/ ExecFails
          \/ /\ (mDir = "up" /\ recorded) \/ (mDir = "down" /\ ~recorded)
             /\ ExecFails
          \/ /\ mDir = "up" /\ ~recorded
             /\ txTrack' = txTrack \cup {TrackRow(m)}
             /\ mPc' = "commit"
             /\ UNCHANGED <<mIdx, mResults, dbSchema, track, txSchema>>
          \/ /\ mDir = "down" /\ recorded
             /\ txTrack' = {r \in txTrack : r.version # m.version}
             /\ mPc' = "commit"
             /\ UNCHANGED <<mIdx, mResults, dbSchema, track, txSchema>>
    /\ StepFrame

\* tx.Commit: the writes of the transaction become visible together and the
\* loop goes on; a failed commit leaves nothing.
ExecCommit ==
    /\ mPc = "commit"
    /\ \/ ExecFails
       \/ /\ dbSchema' = txSchema
          /\ track' = txTrack
          /\ mResults' = Append(mResults, Result(mList[mIdx], mDir, TRUE))
          /\ mIdx' = IF mDir = "up" THEN mIdx + 1 ELSE mIdx - 1
          /\ mPc' = mDir
          /\ txSchema' = {}
          /\ txTrack' = {}
    /\ StepFrame

\* What a change outside the runner leaves alone.
EnvFrame == UNCHANGED <<dbSchema, track, trackTable, mPc, mCfg, mTarget, mDir, mList,
                        mIdx, mResults, mErr, txSchema, txTrack, runs, exceptMig>>

\* Somebody edits an UP file between two runs.
EditUp(m) ==
    /\ mPc = "idle"
    /\ edits < MaxEdits
    /\ edits' = edits + 1
    /\ fileUp' = [fileUp EXCEPT ![m] = @ + 1]
    /\ UNCHANGED <<today, fileDown>>
    /\ EnvFrame

\* Somebody edits a DOWN file between two runs.
EditDown(m) ==
    /\ mPc = "idle"
    /\ edits < MaxEdits
    /\ fileDown[m] # NoFile
    /\ edits' = edits + 1
    /\ fileDown' = [fileDown EXCEPT ![m] = @ + 1]
    /\ UNCHANGED <<today, fileUp>>
    /\ EnvFrame

\* Midnight passes between two runs.
DayPasses ==
    /\ mPc = "idle"
    /\ today < MaxDay
    /\ today' = today + 1
    /\ UNCHANGED <<fileUp, fileDown, edits>>
    /\ EnvFrame

\* Runner.RecordMigration called by itself: the INSERT into schema_migrations
\* on the connection pool; it fails on a version already recorded.
RecordMigration(m) ==
    /\ mPc = "idle"
    /\ trackTable
    /\ ~ParseFails(m, mCfg)
    /\ \A r \in track : r.version # ParseMigrationFile(m).version
    /\ track' = track \cup {TrackRow(ParseMigrationFile(m))}
    /\ UNCHANGED <<today, fileUp, fileDown, edits, dbSchema, trackTable, mPc, mCfg,
                   mTarget, mDir, mList, mIdx, mResults, mErr, txSchema, txTrack,
                   runs, exceptMig>>

\* Runner.DeleteMigrationRecord called by itself: the DELETE on the
\* connection pool; no row deleted is an error.
DeleteMigrationRecord(version) ==
    /\ mPc = "idle"
    /\ trackTable
    /\ \E r \in track : r.version = version
    /\ track' = {r \in track : r.version # version}
    /\ UNCHANGED <<today, fileUp, fileDown, edits, dbSchema, trackTable, mPc, mCfg,
                   mTarget, mDir, mList, mIdx, mResults, mErr, txSchema, txTrack,
                   runs, exceptMig>>

\* The methods of the runner called by themselves.  Initialize is what the
\* command init and the start-up of the application call; no command and no
\* start-up path calls RecordMigration and DeleteMigrationRecord, they are
\* what a caller of the package can do to the tracked table.
MigCallsNext ==
    \/ \E ok \in BOOLEAN : InitializeCall(ok)
    \/ \E m \in Migs : RecordMigration(m)
    \/ \E m \in Migs, day \in 1..MaxDay :
          DeleteMigrationRecord(NormalizeVersion(m, day))

MigNext ==
    \/ \E target \in Targets : \E cfg \in Configs : RunUpCall(target, cfg)
    \/ \E target \in Targets : \E cfg \in Configs : RunDownCall(target, cfg)
    \/ UpLoop
    \/ DownLoop
    \/ ExecSQL
    \/ ExecRecord
    \/ ExecCommit
    \/ \E m \in Migs : EditUp(m)
    \/ \E m \in Migs : EditDown(m)
    \/ DayPasses

\* ==================================================== statement splitter
\* The characters of a script. Of the letters, digits and underscores that a
\* dollar tag may hold, and that statements are made of, the scripts have the
\* letter a; of the whitespace strings.TrimSpace removes, the newline.
Semicolon == ";"
SingleQuote == "'"
DollarSign == "$"
Letter == "a"
Dash == "-"
Newline == "\n"
Slash == "/"
Star == "*"

TagChars == {Letter}
WhiteSpace == {Newline}

\* The scripts: every string up to MaxSqlLen over the characters of one
\* quoting or comment construct, with semicolons and letters.
SqlAlphabets ==
    {{Semicolon, Letter, SingleQuote},
     {Semicolon, Letter, DollarSign},
     {Semicolon, Letter, Dash, Newline},
     {Semicolon, Letter, Slash, Star}}

SqlInputs ==
    UNION {UNION {[1..n -> A] : n \in 0..MaxSqlLen} : A \in SqlAlphabets}

\* strings.TrimSpace.
RECURSIVE TrimLeft(_)
TrimLeft(s) ==
    IF s # <<>> /\ Head(s) \in WhiteSpace THEN TrimLeft(Tail(s)) ELSE s

RECURSIVE TrimRight(_)
TrimRight(s) ==
    IF s # <<>> /\ s[Len(s)] \in WhiteSpace
      THEN TrimRight(SubSeq(s, 1, Len(s) - 1))
      ELSE s

TrimSpace(s) == TrimRight(TrimLeft(s))

\* The inner loop of the single-quoted string that opened before index i: the
\* index after its closing quote, '' being an escaped quote, or past the end
\* of s when the string does not close.
RECURSIVE QuotedEnd(_, _)
QuotedEnd(s, i) ==
    IF i > Len(s) THEN i
    ELSE IF s[i] = SingleQuote
           THEN IF i + 1 <= Len(s) /\ s[i + 1] = SingleQuote
                  THEN QuotedEnd(s, i + 2)
                  ELSE i + 1
    ELSE QuotedEnd(s, i + 1)

\* The scan of a dollar tag from index j: the first index that holds no
\* letter, digit or underscore.
RECURSIVE TagEnd(_, _)
TagEnd(s, j) ==
    IF j <= Len(s) /\ s[j] \in TagChars THEN TagEnd(s, j + 1) ELSE j

\* The end of a statement: the trimmed buffer joins the output unless it is
\* empty.
Flush(buf, out) ==
    LET t == TrimSpace(buf) IN IF t # <<>> THEN Append(out, t) ELSE out

\* The state of the scan before its first character.
ScanStart ==
    [i |-> 1, buf |-> <<>>, out |-> <<>>, inDollar |-> FALSE, dollarTag |-> <<>>,
     inLineComment |-> FALSE, inBlockComment |-> FALSE]

\* One turn of the loop of splitSQLStatements at index st.i of s.
ScanStep(s, st) ==
    LET i == st.i
        c == s[i]
        follows(d) == i + 1 <= Len(s) /\ s[i + 1] = d
        j == TagEnd(s, i + 1)
        tag == SubSeq(s, i, j)
        e == QuotedEnd(s, i + 1)
        plain == [st EXCEPT !.buf = Append(@, c), !.i = i + 1]
    IN CASE st.inLineComment ->
              [plain EXCEPT !.inLineComment = (c # Newline)]
         [] ~st.inLineComment /\ st.inBlockComment ->
              IF c = Star /\ follows(Slash)
                THEN [st EXCEPT !.buf = @ \o <<Star, Slash>>, !.i = i + 2,
                                !.inBlockComment = FALSE]
                ELSE plain
         [] OTHER ->
              IF ~st.inDollar /\ c = Dash /\ follows(Dash)
                THEN [st EXCEPT !.buf = @ \o <<Dash, Dash>>, !.i = i + 2,
                                !.inLineComment = TRUE]
              ELSE IF ~st.inDollar /\ c = Slash /\ follows(Star)
                THEN [st EXCEPT !.buf = @ \o <<Slash, Star>>, !.i = i + 2,
                                !.inBlockComment = TRUE]
              ELSE IF ~st.inDollar /\ c = SingleQuote
                THEN [st EXCEPT !.buf = @ \o SubSeq(s, i, e - 1), !.i = e]
              ELSE IF c = DollarSign /\ j <= Len(s) /\ s[j] = DollarSign
                THEN IF ~st.inDollar
                       THEN [st EXCEPT !.buf = @ \o tag, !.i = j + 1,
                                       !.inDollar = TRUE, !.dollarTag = tag]
                     ELSE IF tag = st.dollarTag
                       THEN [st EXCEPT !.buf = @ \o tag, !.i = j + 1,
                                       !.inDollar = FALSE, !.dollarTag = <<>>]
                     ELSE [st EXCEPT !.buf = @ \o tag, !.i = j + 1]
              ELSE IF ~st.inDollar /\ c = Semicolon
                THEN [st EXCEPT !.out = Flush(st.buf, @), !.buf = <<>>, !.i = i + 1]
              ELSE plain

RECURSIVE ScanFrom(_, _)
ScanFrom(s, st) ==
    IF st.i > Len(s) THEN Flush(st.buf, st.out) ELSE ScanFrom(s, ScanStep(s, st))

\* splitSQLStatements.
SplitSQLStatements(s) == ScanFrom(s, ScanStart)

SplitIdle ==
    /\ sql = <<>>
    /\ stmts = <<>>
    /\ splitPc = "idle"

SplitInit ==
    /\ sql \in SqlInputs
    /\ stmts = <<>>
    /\ splitPc = "idle"

\* executeSQL hands the script to splitSQLStatements.
SplitCall ==
    /\ splitPc = "idle"
    /\ stmts' = SplitSQLStatements(sql)
    /\ splitPc' = "done"
    /\ UNCHANGED <<sql, exceptSplit>>

SplitNext == SplitCall

\* -------------------------------------------------------------- users table
\* The users table behind UserRepository and the calls of UserService on it.
\* A row is kept by its id, which is its place in the sequence: email, role,
\* deleted_at set or not, and the number of updates that set updated_at.

MaxSvcCalls == 2
NumUsers == 3
UserIds == 1..NumUsers
NoId == 0

\* The address of the account POST /dev/create-admin asks for.
AdminEmail == "admin@system.com"

\* strings.ToLower on the strings of the model.
ToLower(s) ==
    CASE s = "B@x.io" -> "b@x.io"
      [] s = "Admin" -> "admin"
      [] OTHER -> s

\* The table as the program finds it: one account of each role.
InitialUsers ==
    [u \in UserIds |->
        [email |-> CASE u = 1 -> "a@x.io" [] u = 2 -> "b@x.io" [] OTHER -> "c@x.io",
         role |-> CASE u = 1 -> "user" [] u = 2 -> "mod" [] OTHER -> "admin",
         deleted |-> u > 3, rev |-> 0]]

\* CreateUserRequest and UpdateUserRequest as the service reads them: Email
\* and Role ("" for a field that is not there), whether a name or a password
\* is there, and whether bcrypt takes the password (GenerateFromPassword
\* refuses one longer than 72 bytes).
NoReq == [Email |-> "", Role |-> "", other |-> FALSE, hashable |-> TRUE]

\* The role a CreateUserRequest asks for: none, the three roles, a role in
\* another case and one that does not exist.
RequestedRoles == {"", "user", "mod", "admin", "Admin", "guest"}

CreateUserRequests ==
    [Email : {"a@x.io", "n@x.io"}, Role : RequestedRoles, other : {TRUE},
     hashable : BOOLEAN]

UpdateUserRequests ==
    {NoReq,
     [NoReq EXCEPT !.other = TRUE],
     [NoReq EXCEPT !.Role = "admin"],
     [NoReq EXCEPT !.Email = "b@x.io"],
     [NoReq EXCEPT !.Email = "n@x.io"]}

\* GetByEmail: the id of a row with the email whose deleted_at is NULL, 0
\* standing for the nil user it returns with its error.
GetByEmail(rows, email) ==
    IF \E i \in DOMAIN rows : rows[i].email = email /\ ~rows[i].deleted
    THEN CHOOSE i \in DOMAIN rows : rows[i].email = email /\ ~rows[i].deleted
    ELSE 0

\* GetByID: the id of the row when its deleted_at is NULL, 0 for the nil user.
GetByID(rows, id) ==
    IF id \in DOMAIN rows /\ ~rows[id].deleted THEN id ELSE 0

\* The CHECK constraint of the role column.
RoleCheck(role) == role \in {"user", "admin", "mod"}

\* The uniqueness of email among the rows that are not deleted.  The
\* migration that creates the users table is not among the migration files;
\* the constraint is the one the data model of the specification states.
EmailUnique(rows, email, id) ==
    \A i \in DOMAIN rows : (i # id /\ ~rows[i].deleted) => rows[i].email # email

\* Create: the INSERT of name, email, password and role, returning the row.
Create(rows, request) ==
    Append(rows, [email |-> request.Email, role |-> request.Role,
                  deleted |-> FALSE, rev |-> 0])

\* The row UPDATE users SET ... WHERE id = $n leaves: email and role are in
\* the SET list when the request has them, updated_at always.
UpdatedRow(row, req) ==
    [row EXCEPT !.rev = @ + 1,
                !.email = IF req.Email = "" THEN @ ELSE req.Email,
                !.role = IF req.Role = "" THEN @ ELSE req.Role]

\* The row UPDATE users SET deleted_at = $1 WHERE id = $2 AND deleted_at IS
\* NULL leaves: deleted_at, and updated_at by the trigger of every UPDATE on
\* the table.
Delete(row) == [row EXCEPT !.deleted = TRUE, !.rev = @ + 1]

\* The goroutines that call UserService: the handler of the request the
\* pipeline is serving, and callers of the service itself.
HttpCaller == "http"
DirectCallers == {"c1", "c2"}
ServiceCallers == {HttpCaller} \cup DirectCallers

\* A call of a method of UserService: where it is ("idle", "read" before its
\* first statement, "write" before its Create or Update, "returned"), its
\* arguments, the error it returned ("" for nil) and the id of the user it
\* returned.
IdleCall ==
    [method |-> "", pc |-> "idle", admin |-> NoId, id |-> NoId, req |-> NoReq,
     err |-> "", user |-> NoId]

StartedCall(method, admin, id, req) ==
    [method |-> method, pc |-> "read", admin |-> admin, id |-> id,
     req |-> req, err |-> "", user |-> NoId]

\* The calls the callers of the service make.
UserServiceCalls ==
    {StartedCall("Register", NoId, NoId, req) : req \in CreateUserRequests}
    \cup
    {StartedCall("CreateAdminUser", NoId, NoId,
                 [Email |-> AdminEmail, Role |-> "admin", other |-> TRUE,
                  hashable |-> TRUE])}
    \cup
    {StartedCall(method, NumUsers, id, NoReq) :
        method \in {"PromoteUserToMod", "DemoteUser", "DeleteUser",
                    "GetUserByID"},
        id \in 1..(NumUsers + 1)}
    \cup
    {StartedCall("UpdateUser", NoId, id, req) :
        id \in UserIds, req \in UpdateUserRequests}
    \cup
    {StartedCall("GetAllUsers", NoId, NoId, NoReq)}
    \cup
    {StartedCall("Login", NoId, NoId, [NoReq EXCEPT !.Email = email]) :
        email \in {"a@x.io", "n@x.io"}}

RegInit ==
    /\ users = InitialUsers
    /\ svc = [c \in ServiceCallers |-> IdleCall]
    /\ svcCalls = 0

\* return of the method with err and user.
Returns(c, err, user) ==
    svc' = [svc EXCEPT ![c].pc = "returned", ![c].err = err, ![c].user = user]

\* A caller of the service calls one of its methods.
UserServiceCall(c, call) ==
    /\ c \in DirectCallers
    /\ svc[c].pc \in {"idle", "returned"}
    /\ svcCalls < MaxSvcCalls
    /\ svcCalls' = svcCalls + 1
    /\ svc' = [svc EXCEPT ![c] = call]
    /\ UNCHANGED <<users, exceptReg>>

\* The roles Register refuses to assign.
RefusesRole(role) == role = "admin" \/ role = "mod"

\* An assignment that gives the role CreateAdminUser forces.
DefaultRoleForcedAdmin(role) ==
    IF role = "" \/ role = "user" THEN "admin" ELSE role

\* The default assignment of Register: no role, or user, becomes user.
DefaultRole(role) == IF role = "" \/ role = "user" THEN "user" ELSE role

\* Register up to its INSERT: GetByEmail, whose error it drops, the refusal
\* of the roles admin and mod and of every role but user, bcrypt.  ok tells
\* whether the database answers the statement.
UserServiceRegister(c, ok) ==
    /\ svc[c].method = "Register"
    /\ svc[c].pc = "read"
    /\ LET req == svc[c].req
           existingUser == IF ok THEN GetByEmail(users, req.Email) ELSE 0
       IN  IF existingUser # 0
           THEN Returns(c, "email", NoId)
           ELSE IF RefusesRole(req.Role)
           THEN Returns(c, "role", NoId)
           ELSE IF ~(req.Role = "" \/ req.Role = "user")
           THEN Returns(c, "invalid role", NoId)
           ELSE IF ~req.hashable
           THEN Returns(c, "hash", NoId)
           ELSE svc' = [svc EXCEPT ![c].pc = "write",
                                   ![c].req.Role = DefaultRole(req.Role)]
    /\ UNCHANGED <<users, svcCalls, exceptReg>>

\* CreateAdminUser up to its INSERT: GetByEmail, the role forced to admin,
\* bcrypt.
UserServiceCreateAdminUser(c, ok) ==
    /\ svc[c].method = "CreateAdminUser"
    /\ svc[c].pc = "read"
    /\ LET req == svc[c].req
           existingUser == IF ok THEN GetByEmail(users, req.Email) ELSE 0
       IN  IF existingUser # 0
           THEN Returns(c, "email", NoId)
           ELSE IF ~req.hashable
           THEN Returns(c, "hash", NoId)
           ELSE svc' = [svc EXCEPT ![c].pc = "write", ![c].req.Role = "admin"]
    /\ UNCHANGED <<users, svcCalls, exceptReg>>

\* userRepo.Create of Register and CreateAdminUser and their return.  The
\* database takes the INSERT when it answers and the constraints of the
\* table hold.
UserServiceCreate(c, inserted) ==
    /\ svc[c].method \in {"Register", "CreateAdminUser"}
    /\ svc[c].pc = "write"
    /\ IF /\ inserted
          /\ RoleCheck(svc[c].req.Role)
          /\ EmailUnique(users, svc[c].req.Email, NoId)
       THEN /\ users' = Create(users, svc[c].req)
            /\ Returns(c, "", Len(users) + 1)
       ELSE /\ Returns(c, "create", NoId)
            /\ UNCHANGED users
    /\ UNCHANGED <<svcCalls, exceptReg>>

\* Login: GetByEmail, the comparison of the password with the stored hash
\* (matches), the token.
UserServiceLogin(c, ok, matches) ==
    /\ svc[c].method = "Login"
    /\ svc[c].pc = "read"
    /\ LET user == IF ok THEN GetByEmail(users, svc[c].req.Email) ELSE 0
       IN  IF user = 0 \/ ~matches
           THEN Returns(c, "login", NoId)
           ELSE Returns(c, "", user)
    /\ UNCHANGED <<users, svcCalls, exceptReg>>

\* PromoteUserToMod up to its UPDATE: GetByID and the refusal of an admin
\* target.
UserServicePromoteUserToMod(c, ok) ==
    /\ svc[c].method = "PromoteUserToMod"
    /\ svc[c].pc = "read"
    /\ LET targetUser == IF ok THEN GetByID(users, svc[c].id) ELSE 0
       IN  IF targetUser = 0
           THEN Returns(c, "not found", NoId)
           ELSE IF users[targetUser].role = "admin"
           THEN Returns(c, "admin", NoId)
           ELSE svc' = [svc EXCEPT ![c].pc = "write", ![c].req.Role = "mod"]
    /\ UNCHANGED <<users, svcCalls, exceptReg>>

\* DemoteUser up to its UPDATE: GetByID, the refusal of the caller's own id
\* and of a target that is a user already.
UserServiceDemoteUser(c, ok) ==
    /\ svc[c].method = "DemoteUser"
    /\ svc[c].pc = "read"
    /\ LET targetUser == IF ok THEN GetByID(users, svc[c].id) ELSE 0
       IN  IF targetUser = 0
           THEN Returns(c, "not found", NoId)
           ELSE IF svc[c].admin = svc[c].id
           THEN Returns(c, "self", NoId)
           ELSE IF users[targetUser].role = "user"
           THEN Returns(c, "user", NoId)
           ELSE svc' = [svc EXCEPT ![c].pc = "write", ![c].req.Role = "user"]
    /\ UNCHANGED <<users, svcCalls, exceptReg>>

\* UpdateUser up to its UPDATE: the refusal of a request without a field
\* and, when the request has an email, GetByEmail and the refusal of an
\* email another user has.
UserServiceUpdateUser(c, ok) ==
    /\ svc[c].method = "UpdateUser"
    /\ svc[c].pc = "read"
    /\ LET req == svc[c].req
           existingUser == IF ok /\ req.Email # ""
                           THEN GetByEmail(users, req.Email) ELSE 0
       IN  IF ~req.other /\ req.Email = "" /\ req.Role = ""
           THEN Returns(c, "no field", NoId)
           ELSE IF existingUser # 0 /\ existingUser # svc[c].id
           THEN Returns(c, "email", NoId)
           ELSE svc' = [svc EXCEPT ![c].pc = "write"]
    /\ UNCHANGED <<users, svcCalls, exceptReg>>

\* userRepo.Update of PromoteUserToMod, DemoteUser and UpdateUser and their
\* return: the UPDATE touches only a row whose deleted_at is NULL, and the
\* database takes it when it answers and the constraints of the table hold.
UserServiceUpdate(c, ok) ==
    /\ svc[c].method \in {"PromoteUserToMod", "DemoteUser", "UpdateUser"}
    /\ svc[c].pc = "write"
    /\ LET id == svc[c].id
           req == svc[c].req
       IN  IF /\ ok
              /\ GetByID(users, id) # 0
              /\ RoleCheck(UpdatedRow(users[id], req).role)
              /\ EmailUnique(users, UpdatedRow(users[id], req).email, id)
           THEN /\ users' = [users EXCEPT ![id] = UpdatedRow(@, req)]
                /\ Returns(c, "", id)
           ELSE /\ Returns(c, "update", NoId)
                /\ UNCHANGED users
    /\ UNCHANGED <<svcCalls, exceptReg>>

\* DeleteUser: userRepo.Delete sets deleted_at of a row that has none and
\* fails when no row was affected.
UserServiceDeleteUser(c, ok) ==
    /\ svc[c].method = "DeleteUser"
    /\ svc[c].pc = "read"
    /\ IF ok /\ GetByID(users, svc[c].id) # 0
       THEN /\ users' = [users EXCEPT ![svc[c].id] = Delete(@)]
            /\ Returns(c, "", NoId)
       ELSE /\ Returns(c, "delete", NoId)
            /\ UNCHANGED users
    /\ UNCHANGED <<svcCalls, exceptReg>>

UserServiceGetUserByID(c, ok) ==
    /\ svc[c].method = "GetUserByID"
    /\ svc[c].pc = "read"
    /\ LET user == IF ok THEN GetByID(users, svc[c].id) ELSE 0
       IN  IF user = 0
           THEN Returns(c, "not found", NoId)
           ELSE Returns(c, "", user)
    /\ UNCHANGED <<users, svcCalls, exceptReg>>

\* GetAllUsers: the count and the page of the rows that are not deleted.
UserServiceGetAllUsers(c, ok) ==
    /\ svc[c].method = "GetAllUsers"
    /\ svc[c].pc = "read"
    /\ IF ok THEN Returns(c, "", NoId) ELSE Returns(c, "list", NoId)
    /\ UNCHANGED <<users, svcCalls, exceptReg>>

\* The statements of the calls that are under way.
UserServiceSteps(c) ==
    \/ \E ok \in BOOLEAN : UserServiceRegister(c, ok)
    \/ \E ok \in BOOLEAN : UserServiceCreateAdminUser(c, ok)
    \/ \E inserted \in BOOLEAN : UserServiceCreate(c, inserted)
    \/ \E ok \in BOOLEAN, matches \in BOOLEAN : UserServiceLogin(c, ok, matches)
    \/ \E ok \in BOOLEAN : UserServicePromoteUserToMod(c, ok)
    \/ \E ok \in BOOLEAN : UserServiceDemoteUser(c, ok)
    \/ \E ok \in BOOLEAN : UserServiceUpdateUser(c, ok)
    \/ \E ok \in BOOLEAN : UserServiceUpdate(c, ok)
    \/ \E ok \in BOOLEAN : UserServiceDeleteUser(c, ok)
    \/ \E ok \in BOOLEAN : UserServiceGetUserByID(c, ok)
    \/ \E ok \in BOOLEAN : UserServiceGetAllUsers(c, ok)

RegNext ==
    \/ \E c \in DirectCallers, call \in UserServiceCalls : UserServiceCall(c, call)
    \/ \E c \in DirectCallers : UserServiceSteps(c)

\* ------------------------------------------------------------ HTTP pipeline
\* The chain setupRouter builds for a request the router matches: error
\* handling outermost, then validation, CORS, the rate limiter, on the
\* protected subrouter AuthMiddleware and the RBAC middleware of the
\* subrouter, and the handler.  The metrics, logging and security header
\* middlewares pass the request on and are left out here; the decision of the
\* rate limiter is an input of its step, the limiter being modelled on its
\* own.

MaxRequests == 2

PermViewOwnProfile == "view_own_profile"
PermUpdateOwnProfile == "update_own_profile"
PermDeleteOwnProfile == "delete_own_profile"
PermViewOwnBalance == "view_own_balance"
PermMakeTransaction == "make_transaction"
PermViewAllUsers == "view_all_users"
PermViewAnyUser == "view_any_user"
PermUpdateAnyUser == "update_any_user"
PermDeleteAnyUser == "delete_any_user"
PermViewAllBalances == "view_all_balances"
PermViewAnyBalance == "view_any_balance"
PermViewAllTransactions == "view_all_transactions"
PermSystemManagement == "system_management"
PermViewUserList == "view_user_list"
PermViewUserDetails == "view_user_details"
PermModerateUsers == "moderate_users"
PermViewTransactions == "view_transactions"

UserPermissions ==
    {PermViewOwnProfile, PermUpdateOwnProfile, PermDeleteOwnProfile,
     PermViewOwnBalance, PermMakeTransaction}

ModPermissions ==
    UserPermissions \cup
    {PermViewUserList, PermViewUserDetails, PermModerateUsers,
     PermViewTransactions}

AdminPermissions ==
    ModPermissions \cup
    {PermViewAllUsers, PermViewAnyUser, PermUpdateAnyUser, PermDeleteAnyUser,
     PermViewAllBalances, PermViewAnyBalance, PermViewAllTransactions,
     PermSystemManagement}

\* The map RolePermissions: its keys are the three roles.
RolePermissions ==
    [role \in {"user", "mod", "admin"} |->
        CASE role = "user" -> UserPermissions
          [] role = "mod" -> ModPermissions
          [] OTHER -> AdminPermissions]

\* A lookup of the permission in the list of every role, instead of the
\* list of the caller's role.
hasPermissionInAnyRole(role, permission) ==
    \E other \in DOMAIN RolePermissions : permission \in RolePermissions[other]

hasPermission(role, permission) ==
    IF role \notin DOMAIN RolePermissions
    THEN FALSE
    ELSE permission \in RolePermissions[role]

\* auth.Claims as the middleware reads it: UserID and Role.  NoClaims stands
\* for a request context without the "user" key.
NoClaims == [UserID |-> NoId, Role |-> ""]

\* The roles a signed token may carry: the three of RolePermissions, one the
\* map does not know, and none at all.
TokenRoles == {"", "user", "mod", "admin", "guest"}

\* Authorization headers: none, one that is not "Bearer <token>", a bearer
\* token whose signature or expiry does not verify, and signed tokens.
NoAuthorization == [scheme |-> "", signed |-> FALSE, UserID |-> NoId, Role |-> ""]

Headers ==
    {NoAuthorization,
     [scheme |-> "Basic", signed |-> FALSE, UserID |-> NoId, Role |-> ""],
     [scheme |-> "Bearer", signed |-> FALSE, UserID |-> NoId, Role |-> ""]}
    \cup
    {[scheme |-> "Bearer", signed |-> TRUE, UserID |-> u, Role |-> role] :
        u \in UserIds, role \in TokenRoles}

\* getUserRole: the role of the claims, "user" when the claims carry none.
getUserRole(claims) == IF claims.Role # "" THEN claims.Role ELSE "user"

\* ValidateToken: the claims of a token that parses, is HMAC-signed with the
\* secret and has not expired; NoClaims stands for the error return.
ValidateToken(tokenString) ==
    IF tokenString.signed
    THEN [UserID |-> tokenString.UserID, Role |-> tokenString.Role]
    ELSE NoClaims

\* strings.Contains(path, "/" + segment), paths being sequences of segments.
Contains(path, segment) == \E i \in DOMAIN path : path[i] = segment

\* The routes setupRouter registers: method, path template and handler.  The
\* test routes exist only when appEnv is "development".  The route for the
\* method OPTIONS has no path: it matches every path.
ApiRoutes ==
    {[method |-> "POST", path |-> <<"api", "v1", "auth", "register">>,
      handler |-> "Register"],
     [method |-> "POST", path |-> <<"api", "v1", "auth", "login">>,
      handler |-> "Login"],
     [method |-> "POST", path |-> <<"api", "v1", "auth", "refresh">>,
      handler |-> "Refresh"],
     [method |-> "GET", path |-> <<"api", "v1", "users">>,
      handler |-> "GetAllUsers"],
     [method |-> "GET", path |-> <<"api", "v1", "users", "profile">>,
      handler |-> "GetProfile"],
     [method |-> "GET", path |-> <<"api", "v1", "users", "{id}">>,
      handler |-> "GetUserByID"],
     [method |-> "PUT", path |-> <<"api", "v1", "users", "{id}">>,
      handler |-> "UpdateUser"],
     [method |-> "DELETE", path |-> <<"api", "v1", "users", "{id}">>,
      handler |-> "DeleteUser"],
     [method |-> "POST",
      path |-> <<"api", "v1", "admin", "users", "{id}", "promote">>,
      handler |-> "PromoteToMod"],
     [method |-> "POST",
      path |-> <<"api", "v1", "admin", "users", "{id}", "demote">>,
      handler |-> "DemoteUser"],
     [method |-> "POST", path |-> <<"api", "v1", "transactions", "credit">>,
      handler |-> "Credit"],
     [method |-> "POST", path |-> <<"api", "v1", "transactions", "debit">>,
      handler |-> "Debit"],
     [method |-> "POST", path |-> <<"api", "v1", "transactions", "transfer">>,
      handler |-> "Transfer"],
     [method |-> "GET", path |-> <<"api", "v1", "transactions", "history">>,
      handler |-> "GetHistory"],
     [method |-> "GET", path |-> <<"api", "v1", "transactions", "{id}">>,
      handler |-> "GetTransactionByID"],
     [method |-> "GET", path |-> <<"api", "v1", "balances", "current">>,
      handler |-> "GetCurrentBalance"],
     [method |-> "GET", path |-> <<"api", "v1", "balances", "historical">>,
      handler |-> "GetBalanceHistory"],
     [method |-> "GET", path |-> <<"api", "v1", "balances", "at-time">>,
      handler |-> "GetBalanceAtTime"]}

RootRoutes ==
    {[method |-> "GET", path |-> <<"metrics">>, handler |-> "metricsHandler"],
     [method |-> "GET", path |-> <<"health">>, handler |-> "getHealthHandler"],
     [method |-> "HEAD", path |-> <<"health">>, handler |-> "getHealthHandler"]}

TestRoutes ==
    {[method |-> "GET", path |-> <<"panic">>, handler |-> "panic"],
     [method |-> "GET", path |-> <<"error", "400">>, handler |-> "error400"],
     [method |-> "GET", path |-> <<"error", "401">>, handler |-> "error401"],
     [method |-> "GET", path |-> <<"error", "403">>, handler |-> "error403"],
     [method |-> "GET", path |-> <<"error", "500">>, handler |-> "error500"],
     [method |-> "POST", path |-> <<"dev", "create-admin">>,
      handler |-> "CreateAdmin"]}

Routes(env) ==
    IF env = "development"
    THEN RootRoutes \cup ApiRoutes \cup TestRoutes
    ELSE RootRoutes \cup ApiRoutes

AppEnvs == {"development", "production", "staging"}

\* Request bodies: what is on the wire ("empty", "malformed" for bytes that
\* are no JSON, "mistyped" for JSON the handler's Decode refuses, "object"
\* for JSON it takes), whether Validate takes the name, the email and the
\* password of the decoded request, and the fields of the request.
NoBody ==
    [syntax |-> "empty", valid |-> FALSE, Email |-> "", Role |-> "",
     other |-> FALSE, hashable |-> TRUE]

ValidBody ==
    [syntax |-> "object", valid |-> TRUE, Email |-> "", Role |-> "",
     other |-> TRUE, hashable |-> TRUE]

UpdateBodies ==
    {ValidBody,
     [ValidBody EXCEPT !.valid = FALSE],
     [ValidBody EXCEPT !.syntax = "mistyped"],
     [ValidBody EXCEPT !.other = FALSE],
     [ValidBody EXCEPT !.other = FALSE, !.Role = "admin"],
     [ValidBody EXCEPT !.other = FALSE, !.Role = "Admin"],
     [ValidBody EXCEPT !.other = FALSE, !.Role = "guest"],
     [ValidBody EXCEPT !.other = FALSE, !.Email = "B@x.io"],
     [ValidBody EXCEPT !.other = FALSE, !.Email = "n@x.io"]}

RegisterBodies ==
    {[ValidBody EXCEPT !.Email = email, !.Role = role] :
        email \in {"B@x.io", "n@x.io"}, role \in RequestedRoles}
    \cup
    {[ValidBody EXCEPT !.Email = "n@x.io", !.hashable = FALSE],
     [ValidBody EXCEPT !.Email = "n@x.io", !.valid = FALSE],
     [ValidBody EXCEPT !.syntax = "mistyped"]}

LoginBodies ==
    {[ValidBody EXCEPT !.Email = "a@x.io"],
     [ValidBody EXCEPT !.Email = "n@x.io"],
     [ValidBody EXCEPT !.valid = FALSE],
     [ValidBody EXCEPT !.syntax = "mistyped"]}

RefreshBodies ==
    {ValidBody, [ValidBody EXCEPT !.valid = FALSE],
     [ValidBody EXCEPT !.syntax = "mistyped"]}

\* json.NewDecoder(r.Body).Decode(&req) returns no error.
Decodes(body) == body.syntax = "object"

\* CreateUserRequest.Validate: name, email and password, then ValidateRole,
\* which takes no role and a role that is user, admin or mod in lower case.
CreateUserRequestValidate(body) ==
    /\ body.valid
    /\ (body.Role = "" \/ RoleCheck(ToLower(body.Role)))

\* The request Validate leaves: the email and the role in lower case, and the
\* role user when there was none.
CreateUserRequestValidated(body) ==
    [Email |-> ToLower(body.Email),
     Role |-> IF body.Role = "" THEN "user" ELSE ToLower(body.Role),
     other |-> body.other, hashable |-> body.hashable]

\* UpdateUserRequest.Validate: at least one field, the fields that are
\* there, a role that is user, admin or mod in lower case.
UpdateUserRequestValidate(body) ==
    /\ body.other \/ body.Email # "" \/ body.Role # ""
    /\ body.valid
    /\ (body.Role = "" \/ RoleCheck(ToLower(body.Role)))

UpdateUserRequestValidated(body) ==
    [Email |-> ToLower(body.Email), Role |-> ToLower(body.Role),
     other |-> body.other, hashable |-> body.hashable]

NoRequest ==
    [method |-> "", path |-> <<>>, id |-> NoId, handler |-> "",
     header |-> NoAuthorization, body |-> NoBody, contentType |-> "",
     userAgent |-> FALSE, contentLength |-> 0, transferEncoding |-> "",
     threat |-> FALSE]

\* The request of a client for a route: the {id} of the template filled in
\* (mux.Vars(r)["id"]), the Authorization header and the body, with the
\* Content-Type, User-Agent and Content-Length a client sends with them.
\* Lengths are counted in units of 512 KiB, a body that is there being one
\* unit long at most unless said otherwise.
Request(route, id, header, body) ==
    [method |-> route.method, path |-> route.path, id |-> id,
     handler |-> route.handler, header |-> header, body |-> body,
     contentType |-> IF body.syntax = "empty" THEN "text/plain"
                     ELSE "application/json",
     userAgent |-> TRUE,
     contentLength |-> IF body.syntax = "empty" THEN 0 ELSE 1,
     transferEncoding |-> "", threat |-> FALSE]

\* The same request sent otherwise: without or with another Content-Type,
\* without User-Agent, without a length (with and without the header
\* Transfer-Encoding: chunked in r.Header), longer, with a query parameter
\* that holds a pattern the security validation looks for (threat), with a
\* body that is no JSON or with none.
Variants(r) ==
    {[r EXCEPT !.contentType = ""],
     [r EXCEPT !.contentType = "application/json"],
     [r EXCEPT !.contentType = "text/plain"],
     [r EXCEPT !.contentType = "application/x-www-form-urlencoded"],
     [r EXCEPT !.userAgent = FALSE],
     [r EXCEPT !.contentLength = -1],
     [r EXCEPT !.contentLength = -1, !.transferEncoding = "chunked"],
     [r EXCEPT !.contentLength = 2],
     [r EXCEPT !.contentLength = 3],
     [r EXCEPT !.threat = TRUE],
     [r EXCEPT !.body = [NoBody EXCEPT !.syntax = "malformed"],
               !.contentType = "application/json", !.contentLength = 1],
     [r EXCEPT !.body = NoBody, !.contentType = "application/json",
               !.contentLength = 0]}

\* The protected subrouter, the one that uses AuthMiddleware.
Protected(path) ==
    /\ Len(path) >= 3
    /\ path[1] = "api"
    /\ path[3] \in {"users", "admin", "transactions", "balances"}

\* The values of {id} the requests for a route carry.
RouteIds(route) ==
    IF ~Contains(route.path, "{id}") THEN {NoId}
    ELSE IF route.handler = "GetTransactionByID" THEN {1}
    ELSE UserIds

\* The body a client sends to a route: JSON with POST and PUT, none
\* otherwise.
RouteBody(route) ==
    IF route.method \in {"POST", "PUT"} THEN ValidBody ELSE NoBody

RouteOf(handler) == CHOOSE route \in ApiRoutes : route.handler = handler

\* The signed tokens of the roles user and admin.
OwnTokens ==
    {h \in Headers : h.signed /\ h.Role \in {"user", "admin"}}

AdminToken ==
    [scheme |-> "Bearer", signed |-> TRUE, UserID |-> NumUsers, Role |-> "admin"]

\* The requests the clients send: every protected route with every
\* Authorization header, the update of a user with every body, the public
\* routes with the bodies of their handlers, the other routes, the method
\* OPTIONS, ids that no user has, and some requests sent otherwise.
Requests ==
    UNION {{Request(route, id, header, RouteBody(route)) :
               id \in RouteIds(route), header \in Headers} :
           route \in {route \in ApiRoutes : Protected(route.path)}}
    \cup
    {Request(RouteOf("UpdateUser"), id, header, body) :
        id \in UserIds, header \in OwnTokens, body \in UpdateBodies}
    \cup
    {Request(RouteOf("Register"), NoId, NoAuthorization, body) :
        body \in RegisterBodies}
    \cup
    {Request(RouteOf("Login"), NoId, NoAuthorization, body) :
        body \in LoginBodies}
    \cup
    {Request(RouteOf("Refresh"), NoId, NoAuthorization, body) :
        body \in RefreshBodies}
    \cup
    {Request(route, NoId, NoAuthorization, RouteBody(route)) :
        route \in RootRoutes \cup TestRoutes}
    \cup
    {[Request(RouteOf("GetAllUsers"), NoId, NoAuthorization, NoBody)
         EXCEPT !.method = "OPTIONS", !.handler = "OPTIONS"]}
    \cup
    {Request(RouteOf(handler), id, AdminToken, RouteBody(RouteOf(handler))) :
        handler \in {"GetUserByID", "PromoteToMod", "DemoteUser"},
        id \in {0, NumUsers + 1}}
    \cup
    UNION {Variants(r) :
           r \in {Request(RouteOf("GetAllUsers"), NoId, AdminToken, NoBody),
                  Request(RouteOf("UpdateUser"), 1, NoAuthorization, ValidBody),
                  Request(RouteOf("Register"), NoId, NoAuthorization,
                          [ValidBody EXCEPT !.Email = "n@x.io"])}}

\* The router of env matches the request.
Matches(env, r) ==
    \/ r.method = "OPTIONS"
    \/ [method |-> r.method, path |-> r.path, handler |-> r.handler]
          \in Routes(env)

\* validation.DefaultConfig and validation.StrictConfig, MaxBodySize in units
\* of 512 KiB.
DefaultValidationConfig ==
    [MaxBodySize |-> 2,
     RequiredHeaders |-> {},
     AllowedMethods |-> {"GET", "POST", "PUT", "DELETE", "OPTIONS", "PATCH",
                         "HEAD"},
     ContentTypes |-> {"application/json", "application/x-www-form-urlencoded"},
     JSONValidation |-> TRUE,
     SQLInjection |-> TRUE,
     XSSProtection |-> TRUE,
     PathValidation |-> {},
     RequireNonEmptyJSON |-> FALSE]

StrictConfig ==
    [DefaultValidationConfig EXCEPT !.MaxBodySize = 1,
                                    !.RequiredHeaders = {"Content-Type",
                                                         "User-Agent"},
                                    !.RequireNonEmptyJSON = TRUE,
                                    !.PathValidation = {"id", "user_id"}]

\* The validation configuration setupRouter installs for appEnv.
RouterValidationConfig(env) ==
    IF env = "development"
    THEN [DefaultValidationConfig EXCEPT !.PathValidation = {"id", "user_id"},
                                         !.RequireNonEmptyJSON = TRUE]
    ELSE StrictConfig

\* r.Header.Get(name)
HeaderGet(r, name) ==
    CASE name = "Content-Type" -> r.contentType
      [] name = "User-Agent" -> IF r.userAgent THEN "agent" ELSE ""
      [] name = "Transfer-Encoding" -> r.transferEncoding
      [] OTHER -> ""

\* The Validate functions of the middleware: TRUE for the nil error.
ValidateMethod(r, allowedMethods) == r.method \in allowedMethods

ValidateHeaders(r, requiredHeaders) ==
    \A name \in requiredHeaders : HeaderGet(r, name) # ""

validateContentLength(r, maxSize) ==
    IF r.contentLength = -1
    THEN HeaderGet(r, "Transfer-Encoding") = "chunked"
    ELSE r.contentLength <= maxSize

\* A Content-Type that starts with one of the allowed types.
validateContentType(r, allowedTypes) ==
    /\ HeaderGet(r, "Content-Type") # ""
    /\ HeaderGet(r, "Content-Type") \in allowedTypes

isJSONRequest(r) == HeaderGet(r, "Content-Type") = "application/json"

validateJSONBody(r, requireNonEmpty) ==
    CASE r.body.syntax = "empty" -> ~requireNonEmpty
      [] r.body.syntax = "malformed" -> FALSE
      [] OTHER -> TRUE

ValidateContent(r, config) ==
    /\ validateContentLength(r, config.MaxBodySize)
    /\ r.method \in {"POST", "PUT", "PATCH"}
          => validateContentType(r, config.ContentTypes)
    /\ (config.JSONValidation /\ isJSONRequest(r))
          => validateJSONBody(r, config.RequireNonEmptyJSON)

\* The rule positive_integer for the path parameter id.
ValidatePathParameters(r, pathValidation) ==
    ("id" \in pathValidation /\ Contains(r.path, "{id}")) => r.id > 0

ValidateSecurity(r, config) ==
    (config.SQLInjection \/ config.XSSProtection) => ~r.threat

\* r.ParseForm, which detectSQLInjection calls for a form Content-Type once
\* the query parameters have passed: it reads the body of a POST, PUT or PATCH
\* that is application/x-www-form-urlencoded to its end, and nothing puts it
\* back, so the handler finds an empty body.
ParseForm(r) ==
    IF /\ r.method \in {"POST", "PUT", "PATCH"}
       /\ HeaderGet(r, "Content-Type") = "application/x-www-form-urlencoded"
    THEN [r EXCEPT !.body = NoBody]
    ELSE r

\* The request as ValidateSecurity leaves it: only detectSQLInjection parses
\* the form; detectXSS reads the query parameters and two headers.
AfterValidateSecurity(r, config) ==
    IF config.SQLInjection THEN ParseForm(r) ELSE r

RequirePermission(permission) ==
    [RequiredPermission |-> permission, ResourceOwnership |-> "nil",
     AllowOwner |-> FALSE]

RequirePermissionWithOwnership(permission, ownershipCheck) ==
    [RequiredPermission |-> permission, ResourceOwnership |-> ownershipCheck,
     AllowOwner |-> TRUE]

RequireAdmin == RequirePermission(PermSystemManagement)

\* The RBACConfig UserManagementRBAC chooses for a request.
UserManagementRBAC(r) ==
    CASE Contains(r.path, "users") /\ r.method = "GET" ->
            IF Contains(r.path, "profile")
            THEN RequirePermission(PermViewOwnProfile)
            ELSE IF Contains(r.path, "{id}")
            THEN RequirePermissionWithOwnership(PermViewAnyUser,
                                                "UserResourceOwnership")
            ELSE RequirePermission(PermViewUserList)
      [] Contains(r.path, "users") /\ r.method = "PUT" ->
            RequirePermissionWithOwnership(PermUpdateAnyUser,
                                           "UserResourceOwnership")
      [] Contains(r.path, "users") /\ r.method = "DELETE" ->
            RequirePermissionWithOwnership(PermDeleteAnyUser,
                                           "UserResourceOwnership")
      [] OTHER -> RequirePermission(PermViewOwnProfile)

\* The RBAC middleware setupRouter puts on the subrouter of the request.
RouteRBAC(r) ==
    CASE r.path[3] = "users" -> UserManagementRBAC(r)
      [] r.path[3] = "admin" -> RequireAdmin
      [] r.path[3] = "transactions" -> RequirePermission(PermMakeTransaction)
      [] OTHER -> RequirePermission(PermViewOwnBalance)

UserResourceOwnership(userID, r) ==
    IF ~Contains(r.path, "{id}") THEN FALSE ELSE userID = r.id

TransactionResourceOwnership(userID, r) == TRUE

\* config.ResourceOwnership(claims.UserID, r)
Owns(ownershipCheck, userID, r) ==
    CASE ownershipCheck = "UserResourceOwnership" ->
            UserResourceOwnership(userID, r)
      [] ownershipCheck = "TransactionResourceOwnership" ->
            TransactionResourceOwnership(userID, r)
      [] OTHER -> FALSE

\* Panic values: the three APIError types with the StatusCode the panic
\* gives them, a plain error, and a value that is no error (a string).
NoPanic == [type |-> "none", StatusCode |-> 0]
AuthError == [type |-> "AuthError", StatusCode |-> 401]
RBACError == [type |-> "RBACError", StatusCode |-> 403]
ValidationError(statusCode) ==
    [type |-> "ValidationError", StatusCode |-> statusCode]
PlainError == [type |-> "error", StatusCode |-> 0]
StringPanic == [type |-> "string", StatusCode |-> 0]

\* The types that implement errors.APIError.
APIError == {"AuthError", "RBACError", "ValidationError"}

DefaultErrorConfig == [ShowStackTrace |-> FALSE, MaxErrorLength |-> 500]

DevelopmentErrorConfig ==
    [DefaultErrorConfig EXCEPT !.ShowStackTrace = TRUE,
                               !.MaxErrorLength = 2000]

\* A production configuration with the stack trace left switched on.
ProductionErrorConfigShowsStack ==
    [DefaultErrorConfig EXCEPT !.ShowStackTrace = TRUE,
                               !.MaxErrorLength = 200]

ProductionErrorConfig ==
    [DefaultErrorConfig EXCEPT !.ShowStackTrace = FALSE,
                               !.MaxErrorLength = 200]

\* The error configuration setupRouter installs for appEnv.
RouterErrorConfig(env) ==
    IF env = "development" THEN DevelopmentErrorConfig
    ELSE ProductionErrorConfig

\* What the client has received: the number of responses sent, the status
\* line (fixed by the first WriteHeader), whether the body is the JSON
\* ErrorResponse, and its "stack" field ("" when omitted).
NoResponse == [count |-> 0, status |-> 0, errorJson |-> FALSE, stack |-> ""]

\* debug.Stack() at the point of recovery.
DebugStack == "goroutine"

\* sendErrorResponse on the ResponseWriter w.
sendErrorResponse(w, statusCode, config, stack) ==
    [count |-> w.count + 1,
     status |-> IF w.count = 0 THEN statusCode ELSE w.status,
     errorJson |-> TRUE,
     stack |-> IF config.ShowStackTrace /\ stack # "" THEN stack ELSE ""]

HttpInit ==
    /\ appEnv \in AppEnvs
    /\ httpReq = NoRequest
    /\ httpPc = "idle"
    /\ ctxClaims = NoClaims
    /\ panicVal = NoPanic
    /\ wrapped = [statusCode |-> 0, responseWritten |-> FALSE]
    /\ resp = NoResponse
    /\ handlerRan = FALSE
    /\ reqCount = 0

HttpIdle ==
    /\ appEnv = "production"
    /\ httpReq = NoRequest
    /\ httpPc = "idle"
    /\ ctxClaims = NoClaims
    /\ panicVal = NoPanic
    /\ wrapped = [statusCode |-> 0, responseWritten |-> FALSE]
    /\ resp = NoResponse
    /\ handlerRan = FALSE
    /\ reqCount = 0

\* panic(p): control leaves the handler for the deferred function of the
\* error middleware.
Panic(p) ==
    /\ panicVal' = p
    /\ httpPc' = "recover"

\* w.WriteHeader(code), with or without a body after it, or http.Error(w,
\* msg, code), through errorResponseWriter: a code below 400 goes to the
\* client at once, a code from 400 on is held until the Write that follows
\* it.
WriteResponse(code) ==
    /\ wrapped' = [statusCode |-> code, responseWritten |-> TRUE]
    /\ resp' = [count |-> resp.count + 1,
                status |-> IF resp.count = 0 THEN code ELSE resp.status,
                errorJson |-> FALSE, stack |-> ""]
    /\ httpPc' = "return"

\* The ways a step of the chain ends: in a panic, with a response, by
\* calling the next step, by calling a method of the service.
Panics(p) == Panic(p) /\ UNCHANGED <<wrapped, resp, svc>>

Writes(code) == WriteResponse(code) /\ UNCHANGED <<panicVal, svc>>

Passes(next) == httpPc' = next /\ UNCHANGED <<panicVal, wrapped, resp, svc>>

Calls(method, admin, id, req) ==
    /\ svc' = [svc EXCEPT ![HttpCaller] = StartedCall(method, admin, id, req)]
    /\ httpPc' = "service"
    /\ UNCHANGED <<panicVal, wrapped, resp>>

\* What a step of the chain before the handler leaves alone.
ChainFrame ==
    UNCHANGED <<users, svcCalls, appEnv, httpReq, ctxClaims, handlerRan,
                reqCount, exceptHttpReg>>

\* What a handler leaves alone.
HandlerFrame ==
    UNCHANGED <<users, svcCalls, appEnv, httpReq, ctxClaims, reqCount,
                exceptHttpReg>>

\* The router matches the request and the error middleware takes it: the
\* recovery is deferred, the writer wrapped, the chain entered.
ErrorHandlingEnter(r) ==
    /\ httpPc \in {"idle", "done"}
    /\ reqCount < MaxRequests
    /\ Matches(appEnv, r)
    /\ httpReq' = r
    /\ reqCount' = reqCount + 1
    /\ ctxClaims' = NoClaims
    /\ panicVal' = NoPanic
    /\ wrapped' = [statusCode |-> 0, responseWritten |-> FALSE]
    /\ resp' = NoResponse
    /\ handlerRan' = FALSE
    /\ httpPc' = "validation"
    /\ UNCHANGED <<appEnv, exceptHttp>>

\* validation.Middleware: the method OPTIONS passes, every other request
\* passes its five validations or ends in a panic.  A request that passes
\* goes on as the security validation left it.
ValidationMiddleware ==
    /\ httpPc = "validation"
    /\ LET config == RouterValidationConfig(appEnv)
       IN  IF httpReq.method = "OPTIONS"
           THEN Passes("cors") /\ UNCHANGED httpReq
           ELSE IF ~ValidateMethod(httpReq, config.AllowedMethods)
           THEN Panics(ValidationError(405)) /\ UNCHANGED httpReq
           ELSE IF \/ ~ValidateHeaders(httpReq, config.RequiredHeaders)
                   \/ ~ValidateContent(httpReq, config)
                   \/ ~ValidatePathParameters(httpReq, config.PathValidation)
                   \/ ~ValidateSecurity(httpReq, config)
           THEN Panics(ValidationError(400)) /\ UNCHANGED httpReq
           ELSE /\ Passes("cors")
                /\ httpReq' = AfterValidateSecurity(httpReq, config)
    /\ UNCHANGED <<users, svcCalls, appEnv, ctxClaims, handlerRan, reqCount,
                   exceptHttpReg>>

\* CORSMiddleware: the headers, and 204 for the method OPTIONS.
CORSMiddleware ==
    /\ httpPc = "cors"
    /\ IF httpReq.method = "OPTIONS"
       THEN Writes(204)
       ELSE Passes("ratelimit")
    /\ ChainFrame

\* The handler of RateLimitMiddleware: a path of SkipPaths passes, a request
\* checkRateLimit does not allow is answered 429, the others pass on to the
\* subrouter of the route.
RateLimitMiddleware(allowed) ==
    /\ httpPc = "ratelimit"
    /\ IF httpReq.path # <<"health">> /\ ~allowed
       THEN Writes(429)
       ELSE Passes(IF Protected(httpReq.path) THEN "auth" ELSE "handler")
    /\ ChainFrame

AuthMiddleware ==
    /\ httpPc = "auth"
    /\ IF \/ httpReq.header.scheme = ""
          \/ httpReq.header.scheme # "Bearer"
          \/ ValidateToken(httpReq.header) = NoClaims
       THEN /\ Panic(AuthError)
            /\ UNCHANGED ctxClaims
       ELSE /\ ctxClaims' = ValidateToken(httpReq.header)
            /\ httpPc' = "rbac"
            /\ UNCHANGED panicVal
    /\ UNCHANGED <<appEnv, httpReq, wrapped, resp, handlerRan, reqCount,
                   exceptHttp>>

RequirePermissionWithConfig ==
    /\ httpPc = "rbac"
    /\ LET config == RouteRBAC(httpReq)
           userRole == getUserRole(ctxClaims)
       IN IF ctxClaims = NoClaims
          THEN Panic(AuthError)
          ELSE IF /\ config.AllowOwner
                  /\ config.ResourceOwnership # "nil"
                  /\ Owns(config.ResourceOwnership, ctxClaims.UserID, httpReq)
          THEN httpPc' = "handler" /\ UNCHANGED panicVal
          ELSE IF ~hasPermission(userRole, config.RequiredPermission)
          THEN Panic(RBACError)
          ELSE httpPc' = "handler" /\ UNCHANGED panicVal
    /\ UNCHANGED <<appEnv, httpReq, ctxClaims, wrapped, resp, handlerRan,
                   reqCount, exceptHttp>>

\* The handlers of UserHandler up to their call of the service.
Register ==
    /\ httpPc = "handler"
    /\ httpReq.handler = "Register"
    /\ handlerRan' = TRUE
    /\ IF ~Decodes(httpReq.body) \/ ~CreateUserRequestValidate(httpReq.body)
       THEN Panics(ValidationError(400))
       ELSE Calls("Register", NoId, NoId,
                  CreateUserRequestValidated(httpReq.body))
    /\ HandlerFrame

\* LoginRequest.Validate takes the email and the password of a valid body.
Login ==
    /\ httpPc = "handler"
    /\ httpReq.handler = "Login"
    /\ handlerRan' = TRUE
    /\ IF ~Decodes(httpReq.body) \/ ~httpReq.body.valid
       THEN Panics(ValidationError(400))
       ELSE Calls("Login", NoId, NoId,
                  [NoReq EXCEPT !.Email = ToLower(httpReq.body.Email)])
    /\ HandlerFrame

\* Refresh: auth.RefreshToken takes the token of a valid body.
Refresh ==
    /\ httpPc = "handler"
    /\ httpReq.handler = "Refresh"
    /\ handlerRan' = TRUE
    /\ IF ~Decodes(httpReq.body)
       THEN Panics(ValidationError(400))
       ELSE IF ~httpReq.body.valid
       THEN Panics(AuthError)
       ELSE Writes(200)
    /\ HandlerFrame

GetProfile ==
    /\ httpPc = "handler"
    /\ httpReq.handler = "GetProfile"
    /\ handlerRan' = TRUE
    /\ IF ctxClaims = NoClaims
       THEN Panics([AuthError EXCEPT !.StatusCode = 500])
       ELSE Calls("GetUserByID", NoId, ctxClaims.UserID, NoReq)
    /\ HandlerFrame

GetAllUsers ==
    /\ httpPc = "handler"
    /\ httpReq.handler = "GetAllUsers"
    /\ handlerRan' = TRUE
    /\ IF ctxClaims = NoClaims
       THEN Panics(AuthError)
       ELSE Calls("GetAllUsers", NoId, NoId, NoReq)
    /\ HandlerFrame

GetUserByID ==
    /\ httpPc = "handler"
    /\ httpReq.handler = "GetUserByID"
    /\ handlerRan' = TRUE
    /\ IF ctxClaims = NoClaims
       THEN Panics(AuthError)
       ELSE Calls("GetUserByID", NoId, httpReq.id, NoReq)
    /\ HandlerFrame

UpdateUser ==
    /\ httpPc = "handler"
    /\ httpReq.handler = "UpdateUser"
    /\ handlerRan' = TRUE
    /\ IF ctxClaims = NoClaims
       THEN Panics(AuthError)
       ELSE IF \/ ~Decodes(httpReq.body)
               \/ ~UpdateUserRequestValidate(httpReq.body)
       THEN Panics(ValidationError(400))
       ELSE IF ctxClaims.UserID # httpReq.id
       THEN Panics(RBACError)
       ELSE Calls("UpdateUser", NoId, httpReq.id,
                  UpdateUserRequestValidated(httpReq.body))
    /\ HandlerFrame

DeleteUser ==
    /\ httpPc = "handler"
    /\ httpReq.handler = "DeleteUser"
    /\ handlerRan' = TRUE
    /\ IF ctxClaims = NoClaims
       THEN Panics(AuthError)
       ELSE IF ctxClaims.UserID # httpReq.id
       THEN Panics(RBACError)
       ELSE Calls("DeleteUser", NoId, httpReq.id, NoReq)
    /\ HandlerFrame

PromoteToMod ==
    /\ httpPc = "handler"
    /\ httpReq.handler = "PromoteToMod"
    /\ handlerRan' = TRUE
    /\ IF ctxClaims = NoClaims
       THEN Panics(AuthError)
       ELSE Calls("PromoteUserToMod", ctxClaims.UserID, httpReq.id, NoReq)
    /\ HandlerFrame

DemoteUser ==
    /\ httpPc = "handler"
    /\ httpReq.handler = "DemoteUser"
    /\ handlerRan' = TRUE
    /\ IF ctxClaims = NoClaims
       THEN Panics(AuthError)
       ELSE Calls("DemoteUser", ctxClaims.UserID, httpReq.id, NoReq)
    /\ HandlerFrame

\* POST /dev/create-admin: Validate takes the request the handler builds,
\* CreateAdminUser is called with it.
CreateAdmin ==
    /\ httpPc = "handler"
    /\ httpReq.handler = "CreateAdmin"
    /\ handlerRan' = TRUE
    /\ Calls("CreateAdminUser", NoId, NoId,
             [Email |-> AdminEmail, Role |-> "admin", other |-> TRUE,
              hashable |-> TRUE])
    /\ HandlerFrame

\* The call of the service returned to the handler: an error becomes the
\* panic of the handler (http.Error in CreateAdmin), no error its response.
ServiceReturns ==
    /\ httpPc = "service"
    /\ svc[HttpCaller].pc = "returned"
    /\ LET handler == httpReq.handler
           failed == svc[HttpCaller].err # ""
       IN  CASE failed /\ handler = "Login" ->
                    Panic(AuthError) /\ UNCHANGED <<wrapped, resp>>
             [] failed /\ handler \in {"GetProfile", "GetUserByID"} ->
                    Panic(ValidationError(404)) /\ UNCHANGED <<wrapped, resp>>
             [] failed /\ handler = "GetAllUsers" ->
                    Panic(ValidationError(500)) /\ UNCHANGED <<wrapped, resp>>
             [] failed /\ handler = "CreateAdmin" ->
                    WriteResponse(400) /\ UNCHANGED panicVal
             [] failed ->
                    Panic(ValidationError(400)) /\ UNCHANGED <<wrapped, resp>>
             [] ~failed /\ handler \in {"Register", "CreateAdmin"} ->
                    WriteResponse(201) /\ UNCHANGED panicVal
             [] OTHER ->
                    WriteResponse(200) /\ UNCHANGED panicVal
    /\ svc' = [svc EXCEPT ![HttpCaller] = IdleCall]
    /\ UNCHANGED <<users, svcCalls, appEnv, httpReq, ctxClaims, handlerRan,
                   reqCount, exceptHttpReg>>

\* The test routes of the development router.
TestHandler ==
    /\ httpPc = "handler"
    /\ httpReq.handler \in {"panic", "error400", "error401", "error403",
                            "error500"}
    /\ handlerRan' = TRUE
    /\ Panics(CASE httpReq.handler = "error400" -> ValidationError(400)
                [] httpReq.handler = "error401" -> AuthError
                [] httpReq.handler = "error403" -> RBACError
                [] OTHER -> StringPanic)
    /\ HandlerFrame

\* The handlers of the transactions, the balances, the health check and the
\* metrics, of which the pipeline sees only how they end: the status they
\* write with WriteHeader or with http.Error.
OtherHandlers ==
    {"Transfer", "Credit", "Debit", "GetHistory", "GetTransactionByID",
     "GetCurrentBalance", "GetBalanceHistory", "GetBalanceAtTime",
     "getHealthHandler", "metricsHandler"}

HandlerStatuses(handler, body) ==
    CASE handler \in {"Transfer", "Credit", "Debit"} ->
            IF Decodes(body) THEN {400, 201} ELSE {400}
      [] handler \in {"GetHistory", "GetCurrentBalance", "GetBalanceHistory"} ->
            {500, 200}
      [] handler = "GetTransactionByID" -> {404, 403, 200}
      [] handler = "GetBalanceAtTime" -> {400, 200}
      [] OTHER -> {200}

OtherHandler(code) ==
    /\ httpPc = "handler"
    /\ httpReq.handler \in OtherHandlers
    /\ code \in HandlerStatuses(httpReq.handler, httpReq.body)
    /\ handlerRan' = TRUE
    /\ Writes(code)
    /\ HandlerFrame

\* Transfer when AddJob sends on the job channel Stop has closed: the panic
\* of the send, a runtime error.
TransferPanics ==
    /\ httpPc = "handler"
    /\ httpReq.handler = "Transfer"
    /\ Decodes(httpReq.body)
    /\ handlerRan' = TRUE
    /\ Panics(PlainError)
    /\ HandlerFrame

\* A recovery that answers every recovered value with 500.
ErrorHandlingRecoverAlways500 ==
    /\ httpPc = "recover"
    /\ LET isAPIError == panicVal.type \in APIError
           stack == IF isAPIError THEN "" ELSE DebugStack
       IN resp' = sendErrorResponse(resp, 500, RouterErrorConfig(appEnv),
                                    stack)
    /\ httpPc' = "done"
    /\ UNCHANGED <<appEnv, httpReq, ctxClaims, panicVal, wrapped,
                   handlerRan, reqCount, exceptHttp>>

\* The deferred function of the error middleware, run for a panic.
ErrorHandlingRecover ==
    /\ httpPc = "recover"
    /\ LET isAPIError == panicVal.type \in APIError
           statusCode == IF isAPIError THEN panicVal.StatusCode ELSE 500
           stack == IF isAPIError THEN "" ELSE DebugStack
       IN resp' = sendErrorResponse(resp, statusCode,
                                    RouterErrorConfig(appEnv), stack)
    /\ httpPc' = "done"
    /\ UNCHANGED <<appEnv, httpReq, ctxClaims, panicVal, wrapped,
                   handlerRan, reqCount, exceptHttp>>

\* next.ServeHTTP returned to the error middleware.
ErrorHandlingReturn ==
    /\ httpPc = "return"
    /\ IF wrapped.statusCode >= 400 /\ ~wrapped.responseWritten
       THEN resp' = sendErrorResponse(resp, wrapped.statusCode,
                                      RouterErrorConfig(appEnv), "")
       ELSE UNCHANGED resp
    /\ httpPc' = "done"
    /\ UNCHANGED <<appEnv, httpReq, ctxClaims, panicVal, wrapped,
                   handlerRan, reqCount, exceptHttp>>

HttpNext ==
    \/ \E r \in Requests : ErrorHandlingEnter(r)
    \/ ValidationMiddleware
    \/ CORSMiddleware
    \/ \E allowed \in BOOLEAN : RateLimitMiddleware(allowed)
    \/ AuthMiddleware
    \/ RequirePermissionWithConfig
    \/ Register
    \/ Login
    \/ Refresh
    \/ GetProfile
    \/ GetAllUsers
    \/ GetUserByID
    \/ UpdateUser
    \/ DeleteUser
    \/ PromoteToMod
    \/ DemoteUser
    \/ CreateAdmin
    \/ UserServiceSteps(HttpCaller)
    \/ ServiceReturns
    \/ TestHandler
    \/ \E code \in {200, 201, 400, 403, 404, 500} : OtherHandler(code)
    \/ TransferPanics
    \/ ErrorHandlingRecover
    \/ ErrorHandlingReturn

\* ------------------------------------------------------------ rate limiter
\* RateLimitMiddleware with one rate.Limiter per client IP.  Time is counted
\* in ticks; the limiter of golang.org/x/time/rate is a token bucket that
\* starts full, gains one token every RefillTicks ticks up to Burst and gives
\* one token to every event it allows.  The bucket is kept in ticks' worth of
\* tokens, RefillTicks of them making one token.  The lists of whitelisted
\* and blacklisted addresses are empty in DefaultRateLimitConfig and left
\* out, and so is the sweeper, which removes only a limiter idle for thirty
\* windows.

Burst == 2
RequestsPerMinute == 2
WindowSize == 4
MaxTime == 6
MaxCalls == 6
NumClients == 2

ClientIPs == 1..NumClients
SkipPaths == {"/health", "/favicon.ico"}
RlPaths == {"/health", "/api/v1/users"}

\* rate.Every(WindowSize / RequestsPerMinute): the time between two tokens.
RefillTicks == WindowSize \div RequestsPerMinute

NoLimiter == [exists |-> FALSE, tokens |-> 0, last |-> 0, windowStart |-> 0]

\* rate.NewLimiter(rateLimit, Burst) in an ipLimiter made at now: the first
\* event finds the bucket full.
NewIpLimiter(now) ==
    [exists |-> TRUE, tokens |-> Burst * RefillTicks, last |-> now,
     windowStart |-> now]

\* The bucket of the limiter at now: what it held at its last event and what
\* it gained since, up to Burst.
TokensAt(l, now) ==
    IF l.tokens + (now - l.last) > Burst * RefillTicks
    THEN Burst * RefillTicks
    ELSE l.tokens + (now - l.last)

\* An Allow that lets the event pass while the bucket is not empty, a part
\* of a token being enough.
AllowFraction(l, now) == TokensAt(l, now) >= 1

\* limiter.Allow(): there is a whole token.
Allow(l, now) == TokensAt(l, now) >= RefillTicks

\* The limiter after Allow: an allowed event takes its token, a refused one
\* leaves the limiter as it was.
AfterAllow(l, now) ==
    IF Allow(l, now)
    THEN [l EXCEPT !.tokens = TokensAt(l, now) - RefillTicks, !.last = now]
    ELSE l

\* int(limiter.Tokens()), not below 0.
Remaining(l, now) == TokensAt(l, now) \div RefillTicks

\* checkRateLimit(ip) at now: the ipLimiter it leaves in the map, with the
\* values it returns.
checkRateLimit(ls, ip, now) ==
    LET found == IF ls[ip].exists THEN ls[ip] ELSE NewIpLimiter(now)
        windowed == IF now - found.windowStart >= WindowSize
                    THEN [found EXCEPT !.windowStart = now]
                    ELSE found
        after == AfterAllow(windowed, now)
    IN  [limiter |-> after,
         allowed |-> Allow(windowed, now),
         remaining |-> Remaining(after, now),
         resetTime |-> after.windowStart + WindowSize]

\* The Retry-After header of sendRateLimitResponse, in ticks.
RetryAfter(resetTime, now) ==
    IF resetTime - now < 0 THEN WindowSize ELSE resetTime - now

NoRlCall ==
    [ip |-> 0, path |-> "", at |-> 0, allowed |-> FALSE, status |-> 0,
     reached |-> FALSE, remaining |-> 0, resetTime |-> 0, retryAfter |-> 0,
     nth |-> 0, firstAt |-> 0, inWindow |-> 0, afterLimit |-> FALSE]

NoHistory == [nth |-> 0, firstAt |-> 0, inWindow |-> 0, limitedUntil |-> 0]

RlInit ==
    /\ rlNow = 0
    /\ limiters = [ip \in ClientIPs |-> NoLimiter]
    /\ rlLast = NoRlCall
    /\ rlSeen = [ip \in ClientIPs |-> NoHistory]
    /\ rlCalls = 0

\* time.Now() moves on.
RlTick ==
    /\ rlNow < MaxTime
    /\ rlNow' = rlNow + 1
    /\ UNCHANGED <<limiters, rlLast, rlSeen, rlCalls, exceptRl>>

\* The handler of the middleware for a request of ip to path.  rlSeen
\* counts, for each ip, the requests the limiter has checked since it made
\* the ipLimiter (nth, the first of them at firstAt) and since the window
\* began (inWindow), and keeps the reset time of the last refusal until a
\* request arrives at or after it (limitedUntil, 0 when there is none).
RateLimitHandler(ip, path) ==
    /\ rlCalls < MaxCalls
    /\ rlCalls' = rlCalls + 1
    /\ UNCHANGED <<rlNow, exceptRl>>
    /\ IF path \in SkipPaths
       THEN /\ rlLast' = [NoRlCall EXCEPT !.ip = ip, !.path = path, !.at = rlNow,
                                        !.allowed = TRUE, !.reached = TRUE]
            /\ UNCHANGED <<limiters, rlSeen>>
       ELSE LET c == checkRateLimit(limiters, ip, rlNow)
                h == rlSeen[ip]
                newWindow == c.limiter.windowStart = rlNow
                               /\ (~limiters[ip].exists
                                   \/ limiters[ip].windowStart # rlNow)
                nth == h.nth + 1
                firstAt == IF h.nth = 0 THEN rlNow ELSE h.firstAt
                inWindow == IF newWindow THEN 1 ELSE h.inWindow + 1
                afterLimit == h.limitedUntil # 0 /\ rlNow >= h.limitedUntil
            IN  /\ limiters' = [limiters EXCEPT ![ip] = c.limiter]
                /\ rlLast' =
                      [ip |-> ip, path |-> path, at |-> rlNow,
                       allowed |-> c.allowed,
                       status |-> IF c.allowed THEN 0 ELSE 429,
                       reached |-> c.allowed,
                       remaining |-> c.remaining,
                       resetTime |-> c.resetTime,
                       retryAfter |-> IF c.allowed THEN 0
                                      ELSE RetryAfter(c.resetTime, rlNow),
                       nth |-> nth, firstAt |-> firstAt,
                       inWindow |-> inWindow, afterLimit |-> afterLimit]
                /\ rlSeen' =
                      [rlSeen EXCEPT ![ip] =
                          [nth |-> nth, firstAt |-> firstAt,
                           inWindow |-> inWindow,
                           limitedUntil |->
                               IF ~c.allowed THEN c.resetTime
                               ELSE IF afterLimit THEN 0
                               ELSE h.limitedUntil]]

RlNext ==
    \/ RlTick
    \/ \E ip \in ClientIPs, path \in RlPaths : RateLimitHandler(ip, path)

\* ====================================================== graceful shutdown
\* main() from the moment the server listens, and performGracefulShutdown.
\* Time is counted from the signal, in ticks of five seconds.  A goroutine
\* that has just been started takes its first step, and a select whose
\* channel is ready returns, before the next tick.
MaxInflight == 2
MaxQueued == 2
MaxSdTime == 10

\* context.WithTimeout(context.Background(), 30*time.Second)
ShutdownTimeout == 6
\* context.WithTimeout(context.Background(), 5*time.Second)
ForceTimeout == 1
\* time.NewTimer(10 * time.Second)
QueueTimeout == 2

NoDeadline == -1

SdInit ==
    /\ sdNow = 0
    /\ sdMain = "serving"
    /\ listening = TRUE
    /\ inflight = 0
    /\ sdHttp = "none"
    /\ sdStop = "none"
    /\ ctxDeadline = NoDeadline
    /\ mainDeadline = NoDeadline
    /\ sdClosed = FALSE
    /\ sdQueued = 0
    /\ sdPanics = 0
    /\ dbClosed = FALSE
    /\ sdEvents = <<>>

\* An entry of the history: the step, its time, the requests in flight and
\* the jobs not yet processed at that time.
Event(name) == [ev |-> name, at |-> sdNow, busy |-> inflight, queued |-> sdQueued]

\* The server takes a request: a connection of the listener gets its handler.
SdAccept ==
    /\ listening
    /\ sdMain # "exited"
    /\ inflight < MaxInflight
    /\ inflight' = inflight + 1
    /\ UNCHANGED <<sdNow, sdMain, listening, sdHttp, sdStop, ctxDeadline,
                   mainDeadline, sdClosed, sdQueued, sdPanics, dbClosed, sdEvents>>
    /\ UNCHANGED exceptSd

\* The handler of a request in flight calls q.AddJob: the send on the job
\* channel puts the job in the buffer, and panics once Stop has closed the
\* channel.
SdAddJob ==
    /\ inflight > 0
    /\ sdMain # "exited"
    /\ sdPanics + sdQueued < MaxQueued
    /\ IF sdClosed
         THEN /\ sdPanics' = sdPanics + 1
              /\ UNCHANGED sdQueued
         ELSE /\ sdQueued' = sdQueued + 1
              /\ UNCHANGED sdPanics
    /\ UNCHANGED <<sdNow, sdMain, listening, inflight, sdHttp, sdStop, ctxDeadline,
                   mainDeadline, sdClosed, dbClosed, sdEvents>>
    /\ UNCHANGED exceptSd

\* A worker has processed a job of the channel.
SdWorker ==
    /\ sdQueued > 0
    /\ sdMain # "exited"
    /\ sdQueued' = sdQueued - 1
    /\ UNCHANGED <<sdNow, sdMain, listening, inflight, sdHttp, sdStop, ctxDeadline,
                   mainDeadline, sdClosed, sdPanics, dbClosed, sdEvents>>
    /\ UNCHANGED exceptSd

\* A request in flight is answered; its connection becomes idle.
SdComplete ==
    /\ inflight > 0
    /\ sdMain # "exited"
    /\ inflight' = inflight - 1
    /\ UNCHANGED <<sdNow, sdMain, listening, sdHttp, sdStop, ctxDeadline,
                   mainDeadline, sdClosed, sdQueued, sdPanics, dbClosed, sdEvents>>
    /\ UNCHANGED exceptSd

\* case sig := <-shutdown: performGracefulShutdown makes shutdownCtx and
\* starts the goroutine that calls server.Shutdown(shutdownCtx), then waits
\* in its select.
SdSignal ==
    /\ sdMain = "serving"
    /\ sdMain' = "httpWait"
    /\ sdHttp' = "started"
    /\ ctxDeadline' = sdNow + ShutdownTimeout
    /\ mainDeadline' = sdNow + ShutdownTimeout
    /\ sdEvents' = Append(sdEvents, Event("signal"))
    /\ UNCHANGED <<sdNow, listening, inflight, sdStop, sdClosed, sdQueued,
                   sdPanics, dbClosed>>
    /\ UNCHANGED exceptSd

\* server.Shutdown: the listeners are closed, then it polls until no
\* connection is active.
SdShutdownCloseListeners ==
    /\ sdHttp = "started"
    /\ sdHttp' = "polling"
    /\ listening' = FALSE
    /\ sdEvents' = Append(sdEvents, Event("stopAccept"))
    /\ UNCHANGED <<sdNow, sdMain, inflight, sdStop, ctxDeadline, mainDeadline,
                   sdClosed, sdQueued, sdPanics, dbClosed>>
    /\ UNCHANGED exceptSd

\* server.Shutdown(shutdownCtx) returns: nil once every connection is idle,
\* ctx.Err() once the context is done.  The deferred close(done) runs.
SdShutdownReturns ==
    /\ sdHttp = "polling"
    /\ inflight = 0 \/ sdNow >= ctxDeadline
    /\ sdHttp' = "done"
    /\ UNCHANGED <<sdNow, sdMain, listening, inflight, sdStop, ctxDeadline,
                   mainDeadline, sdClosed, sdQueued, sdPanics, dbClosed, sdEvents>>
    /\ UNCHANGED exceptSd

\* What follows the first select of performGracefulShutdown: the goroutine
\* that calls transactionQueue.Stop() is started and the timer of the queue
\* is set.
StartQueueStop ==
    /\ sdMain' = "queueWait"
    /\ sdStop' = "started"
    /\ mainDeadline' = sdNow + QueueTimeout
    /\ sdEvents' = Append(sdEvents, Event("httpStopped"))

\* select: case <-done.
SdHttpDone ==
    /\ sdMain = "httpWait"
    /\ sdHttp = "done"
    /\ StartQueueStop
    /\ UNCHANGED <<sdNow, listening, inflight, sdHttp, ctxDeadline, sdClosed,
                   sdQueued, sdPanics, dbClosed>>
    /\ UNCHANGED exceptSd

\* select: case <-shutdownCtx.Done(): main calls server.Shutdown(forceCtx),
\* which polls again until no connection is active or forceCtx is done.
SdHttpTimeout ==
    /\ sdMain = "httpWait"
    /\ sdNow >= mainDeadline
    /\ sdMain' = "forceWait"
    /\ mainDeadline' = sdNow + ForceTimeout
    /\ listening' = FALSE
    /\ UNCHANGED <<sdNow, inflight, sdHttp, sdStop, ctxDeadline, sdClosed,
                   sdQueued, sdPanics, dbClosed, sdEvents>>
    /\ UNCHANGED exceptSd

\* server.Shutdown(forceCtx) returns.
SdForceReturns ==
    /\ sdMain = "forceWait"
    /\ inflight = 0 \/ sdNow >= mainDeadline
    /\ StartQueueStop
    /\ UNCHANGED <<sdNow, listening, inflight, sdHttp, ctxDeadline, sdClosed,
                   sdQueued, sdPanics, dbClosed>>
    /\ UNCHANGED exceptSd

\* transactionQueue.Stop(): close(q.jobChan), then q.wg.Wait().
SdStopClose ==
    /\ sdStop = "started"
    /\ sdStop' = "waiting"
    /\ sdClosed' = TRUE
    /\ sdEvents' = Append(sdEvents, Event("queueClose"))
    /\ UNCHANGED <<sdNow, sdMain, listening, inflight, sdHttp, ctxDeadline,
                   mainDeadline, sdQueued, sdPanics, dbClosed>>
    /\ UNCHANGED exceptSd

\* q.wg.Wait() returns once the workers have taken the channel empty and
\* left their loops; the deferred close(queueDone) runs.
SdStopReturns ==
    /\ sdStop = "waiting"
    /\ sdQueued = 0
    /\ sdStop' = "done"
    /\ UNCHANGED <<sdNow, sdMain, listening, inflight, sdHttp, ctxDeadline,
                   mainDeadline, sdClosed, sdQueued, sdPanics, dbClosed, sdEvents>>
    /\ UNCHANGED exceptSd

\* The second select: case <-queueDone or case <-queueTimeout.C.
\* performGracefulShutdown returns.
SdQueueDone ==
    /\ sdMain = "queueWait"
    /\ sdStop = "done" \/ sdNow >= mainDeadline
    /\ sdMain' = "returned"
    /\ mainDeadline' = NoDeadline
    /\ sdEvents' = Append(sdEvents, Event("queueWaitOver"))
    /\ UNCHANGED <<sdNow, listening, inflight, sdHttp, sdStop, ctxDeadline,
                   sdClosed, sdQueued, sdPanics, dbClosed>>
    /\ UNCHANGED exceptSd

\* main returns: cancel(), then the deferred database.Close(); the process
\* ends.
SdMainReturns ==
    /\ sdMain = "returned"
    /\ sdMain' = "exited"
    /\ dbClosed' = TRUE
    /\ sdEvents' = Append(sdEvents, Event("dbClose"))
    /\ UNCHANGED <<sdNow, listening, inflight, sdHttp, sdStop, ctxDeadline,
                   mainDeadline, sdClosed, sdQueued, sdPanics>>
    /\ UNCHANGED exceptSd

\* A step that is due now: a started goroutine's first step, a select with
\* a ready case, a poll whose context is done.
SdUrgent ==
    \/ sdHttp = "started"
    \/ sdStop = "started"
    \/ sdHttp = "polling" /\ sdNow >= ctxDeadline
    \/ sdMain = "httpWait" /\ (sdHttp = "done" \/ sdNow >= mainDeadline)
    \/ sdMain = "forceWait" /\ sdNow >= mainDeadline
    \/ sdMain = "queueWait" /\ (sdStop = "done" \/ sdNow >= mainDeadline)
    \/ sdMain = "returned"

\* Five seconds pass.
SdTick ==
    /\ sdMain \notin {"serving", "exited"}
    /\ ~SdUrgent
    /\ sdNow < MaxSdTime
    /\ sdNow' = sdNow + 1
    /\ UNCHANGED <<sdMain, listening, inflight, sdHttp, sdStop, ctxDeadline,
                   mainDeadline, sdClosed, sdQueued, sdPanics, dbClosed, sdEvents>>
    /\ UNCHANGED exceptSd

SdNext ==
    \/ SdAccept
    \/ SdAddJob
    \/ SdWorker
    \/ SdComplete
    \/ SdSignal
    \/ SdShutdownCloseListeners
    \/ SdShutdownReturns
    \/ SdHttpDone
    \/ SdHttpTimeout
    \/ SdForceReturns
    \/ SdStopClose
    \/ SdStopReturns
    \/ SdQueueDone
    \/ SdMainReturns
    \/ SdTick

\* ================================================ validation of requests
\* The part of Transfer, Credit and Debit of the service that runs before
\* db.WithTransaction: req.Validate(), the same-user check of Transfer, the
\* factory method and transaction.Validate().
MaxMoneyCalls == 2

\* Amounts around the two limits (thousandths): below zero, zero, a tenth of
\* a cent, a cent, a cent below the limit, the limit, a tenth of a cent and a
\* cent above it.
LimitAmounts == {-10, 0, 1, 10, MaxAmount - 10, MaxAmount, MaxAmount + 1,
                 MaxAmount + 10}

\* to_user_id of a TransferRequest: 0 is what a body without the field gives.
ToUserIds == {0} \cup Users

MoneyRequests ==
    [kind : {"transfer"}, user : Users, to : ToUserIds, amount : LimitAmounts]
      \cup [kind : {"credit", "debit"}, user : Users, to : {0}, amount : LimitAmounts]

\* Transaction.Validate on what the factory methods build: the amount, the
\* type and status (always valid here), and the user ids required by the type.
TransactionValidate(req) ==
    /\ req.amount > 0
    /\ req.kind \in {"credit", "debit", "transfer"}
    /\ ValidateStatus(StatusPending)
    /\ req.kind = "transfer" => req.user # req.to

\* Whether the service method reaches db.WithTransaction.
ServiceAccepts(req) ==
    /\ IF req.kind = "transfer" THEN TransferRequestValidate(req)
       ELSE RequestAmountValid(req.amount)
    /\ req.kind = "transfer" => req.user # req.to
    /\ TransactionValidate(req)

ValInit ==
    /\ vReq = NoOp
    /\ vOut = "none"
    /\ vCalls = 0

\* A call of Transfer, Credit or Debit up to the point where it returns the
\* validation error or calls db.WithTransaction.
MoneyCall(req) ==
    /\ vCalls < MaxMoneyCalls
    /\ vCalls' = vCalls + 1
    /\ vReq' = req
    /\ vOut' = IF ServiceAccepts(req) THEN "begun" ELSE "rejected"
    /\ UNCHANGED exceptVal

ValNext == \E req \in MoneyRequests : MoneyCall(req)

\* ========================================================= token refresh
\* auth.GenerateToken and auth.RefreshToken.  A token is what its parse
\* gives: whether the HMAC signature verifies, whether exp has passed, and
\* the claims user_id, email and role of its payload.
MaxRefreshes == 2

\* The email of a token stands for the user it names.
Tokens ==
    [signed : BOOLEAN, expired : BOOLEAN, UserID : UserIds, Email : UserIds,
     Role : TokenRoles]

NoToken == [signed |-> FALSE, expired |-> FALSE, UserID |-> NoId, Email |-> NoId,
            Role |-> ""]

\* GenerateToken(userID, email): the claims are UserID, Email, ExpiresAt and
\* IssuedAt; the token is signed with the secret and valid for 24 hours.
GenerateToken(userID, email) ==
    [signed |-> TRUE, expired |-> FALSE, UserID |-> userID, Email |-> email,
     Role |-> ""]

\* RefreshToken: the new token, NoToken standing for the error returns (the
\* token is still valid, or its signature does not verify).
RefreshToken(tokenString) ==
    IF tokenString.signed /\ ~tokenString.expired THEN NoToken
    ELSE IF ~tokenString.signed THEN NoToken
    ELSE GenerateToken(tokenString.UserID, tokenString.Email)

RfInit ==
    /\ rfToken = NoToken
    /\ rfNew = NoToken
    /\ rfCalls = 0

\* A call of RefreshToken with a token.
RefreshCall(tokenString) ==
    /\ rfCalls < MaxRefreshes
    /\ rfCalls' = rfCalls + 1
    /\ rfToken' = tokenString
    /\ rfNew' = RefreshToken(tokenString)
    /\ UNCHANGED exceptRf

RfNext == \E tokenString \in Tokens : RefreshCall(tokenString)

\* ===================================================== metrics middleware
\* middleware.NewMetricsMiddleware.  The counters are updated under the
\* mutex, once before next.ServeHTTP and once after it returns; a panic of
\* the inner handler unwinds through the middleware to the error middleware
\* outside it, and the code after next.ServeHTTP does not run.
MaxMetConns == 2
MaxMetPasses == 3

MetReqs == 1 .. MaxMetConns

MetStatusCodes == {200, 400}

MetricsConfigs ==
    [EnableRequestCount : BOOLEAN, EnableConcurrency : BOOLEAN,
     EnableStatusCodeCount : BOOLEAN]

DefaultMetricsConfig ==
    [EnableRequestCount |-> TRUE, EnableConcurrency |-> TRUE,
     EnableStatusCodeCount |-> TRUE]

\* The requests between the entry of the middleware and its exit.
InFlight == {r \in MetReqs : metPc[r] = "in"}

MetCounters ==
    /\ metPc = [r \in MetReqs |-> "out"]
    /\ ActiveRequests = 0
    /\ TotalRequests = 0
    /\ StatusCodeCounts = [c \in MetStatusCodes |-> 0]
    /\ metPasses = 0
    /\ metPanics = 0

MetIdle == metConfig = DefaultMetricsConfig /\ MetCounters

MetInit == metConfig \in MetricsConfigs /\ MetCounters

\* The part of the middleware before next.ServeHTTP.
MetEnter(r) ==
    /\ metPc[r] = "out"
    /\ metPasses < MaxMetPasses
    /\ metPasses' = metPasses + 1
    /\ metPc' = [metPc EXCEPT ![r] = "in"]
    /\ TotalRequests' =
           IF metConfig.EnableRequestCount THEN TotalRequests + 1
           ELSE TotalRequests
    /\ ActiveRequests' =
           IF metConfig.EnableRequestCount /\ metConfig.EnableConcurrency
           THEN ActiveRequests + 1
           ELSE ActiveRequests
    /\ UNCHANGED <<metConfig, StatusCodeCounts, metPanics>>
    /\ UNCHANGED exceptMet

\* next.ServeHTTP returned with a status code: the part after it.
MetReturn(r, code) ==
    /\ metPc[r] = "in"
    /\ metPc' = [metPc EXCEPT ![r] = "out"]
    /\ ActiveRequests' =
           IF metConfig.EnableConcurrency THEN ActiveRequests - 1
           ELSE ActiveRequests
    /\ StatusCodeCounts' =
           IF metConfig.EnableStatusCodeCount
           THEN [StatusCodeCounts EXCEPT ![code] = @ + 1]
           ELSE StatusCodeCounts
    /\ UNCHANGED <<metConfig, TotalRequests, metPasses, metPanics>>
    /\ UNCHANGED exceptMet

\* next.ServeHTTP panicked (the authentication middleware panics with an
\* AuthError): the request leaves the middleware with no counter touched.
MetPanic(r) ==
    /\ metPc[r] = "in"
    /\ metPc' = [metPc EXCEPT ![r] = "out"]
    /\ metPanics' = metPanics + 1
    /\ UNCHANGED <<metConfig, ActiveRequests, TotalRequests, StatusCodeCounts,
                   metPasses>>
    /\ UNCHANGED exceptMet

MetNext ==
    \E r \in MetReqs :
        \/ MetEnter(r)
        \/ \E code \in MetStatusCodes : MetReturn(r, code)
        \/ MetPanic(r)

\* ---------------------------------------------------------- specification
EngineNext ==
    \E p \in Procs :
       \/ TransferBegin(p) \/ TransferLockFrom(p) \/ TransferLockTo(p)
       \/ TransferInsertTo(p) \/ TransferApply(p)
       \/ TransferUpdateFrom(p) \/ TransferUpdateTo(p) \/ TransferComplete(p)
       \/ CreditBegin(p) \/ CreditLock(p) \/ CreditInsertBalance(p)
       \/ CreditApply(p) \/ CreditUpdate(p) \/ CreditComplete(p)
       \/ DebitBegin(p) \/ DebitLock(p) \/ DebitApply(p)
       \/ DebitUpdate(p) \/ DebitComplete(p)
       \/ Commit(p) \/ Rollback(p)

\* The balance reads of the handlers, which create a missing row.
BalanceNext == \E u \in Users : GetByUserID(u) \/ CreateBalance(u)

\* The transaction engine, the queue left as constructed.
Init ==
    /\ MetIdle
    /\ RfInit
    /\ ValInit
    /\ SdInit
    /\ RlInit
    /\ RegInit
    /\ HttpIdle
    /\ SplitIdle
    /\ EngineInit
    /\ QueueInit
    /\ FsmIdle
    /\ WtInit
    /\ MigIdle

Next == EngineNext \/ BalanceNext

Spec == Init /\ [][Next]_vars

\* The repositories called directly, beside the balance reads.
NextRepo == RepoNext \/ BalanceNext

SpecRepo == Init /\ [][NextRepo]_vars

\* The transaction queue; q.service.Transfer is the engine above, of which
\* the queue sees only how it returns.
InitQueue ==
    /\ MetIdle
    /\ RfInit
    /\ ValInit
    /\ SdInit
    /\ RlInit
    /\ RegInit
    /\ HttpIdle
    /\ SplitIdle
    /\ QueueInit
    /\ FsmIdle
    /\ WtInit
    /\ MigIdle
    /\ EngineInit
    /\ dbBal = [u \in Users |-> NoRow]

NextQueue == QueueNext

SpecQueue == InitQueue /\ [][NextQueue]_vars

\* The engine with no account, no operation started and no fault left.
EngineIdle ==
    /\ EngineInit
    /\ dbBal = [u \in Users |-> NoRow]

\* SetStatus called in any order on transaction objects.
InitStatus ==
    /\ MetIdle
    /\ RfInit
    /\ ValInit
    /\ SdInit
    /\ RlInit
    /\ RegInit
    /\ HttpIdle
    /\ SplitIdle
    /\ FsmInit
    /\ EngineIdle
    /\ QueueInit
    /\ WtInit
    /\ MigIdle

NextStatus == FsmNext

SpecStatus == InitStatus /\ [][NextStatus]_vars

\* WithTransaction called by several goroutines with bodies of every kind.
InitWt ==
    /\ MetIdle
    /\ RfInit
    /\ ValInit
    /\ SdInit
    /\ RlInit
    /\ RegInit
    /\ HttpIdle
    /\ SplitIdle
    /\ WtInit
    /\ EngineIdle
    /\ QueueInit
    /\ FsmIdle
    /\ MigIdle

NextWt == WtNext

SpecWt == InitWt /\ [][NextWt]_vars

\* RunUp and RunDown called one after the other, against an empty database,
\* with files edited and days passing in between.
InitMig ==
    /\ MetIdle
    /\ RfInit
    /\ ValInit
    /\ SdInit
    /\ RlInit
    /\ RegInit
    /\ HttpIdle
    /\ SplitIdle
    /\ MigInit
    /\ EngineIdle
    /\ QueueInit
    /\ FsmIdle
    /\ WtInit

NextMig == MigNext

SpecMig == InitMig /\ [][NextMig]_vars

\* The runner with its tracking methods also called directly.
NextMigCalls == MigNext \/ MigCallsNext

SpecMigCalls == InitMig /\ [][NextMigCalls]_vars

\* splitSQLStatements called on every script of the bound.
InitSplit ==
    /\ MetIdle
    /\ RfInit
    /\ ValInit
    /\ SdInit
    /\ RlInit
    /\ RegInit
    /\ HttpIdle
    /\ SplitInit
    /\ EngineIdle
    /\ QueueInit
    /\ FsmIdle
    /\ WtInit
    /\ MigIdle

NextSplit == SplitNext

SpecSplit == InitSplit /\ [][NextSplit]_vars

\* The HTTP pipeline serving requests one after the other.
InitHttp ==
    /\ MetIdle
    /\ RfInit
    /\ ValInit
    /\ SdInit
    /\ RlInit
    /\ RegInit
    /\ HttpInit
    /\ SplitIdle
    /\ EngineIdle
    /\ QueueInit
    /\ FsmIdle
    /\ WtInit
    /\ MigIdle

NextHttp == HttpNext

SpecHttp == InitHttp /\ [][NextHttp]_vars

\* Callers of UserService whose calls run side by side on the users table.
InitReg ==
    /\ MetIdle
    /\ RfInit
    /\ ValInit
    /\ SdInit
    /\ RlInit
    /\ RegInit
    /\ HttpIdle
    /\ SplitIdle
    /\ EngineIdle
    /\ QueueInit
    /\ FsmIdle
    /\ WtInit
    /\ MigIdle

NextReg == RegNext

SpecReg == InitReg /\ [][NextReg]_vars

\* The rate limiter taking requests of the clients as time passes.
InitRl ==
    /\ MetIdle
    /\ RfInit
    /\ ValInit
    /\ SdInit
    /\ RlInit
    /\ RegInit
    /\ HttpIdle
    /\ SplitIdle
    /\ EngineIdle
    /\ QueueInit
    /\ FsmIdle
    /\ WtInit
    /\ MigIdle

NextRl == RlNext

SpecRl == InitRl /\ [][NextRl]_vars

\* main serving requests, the signal, and the shutdown that follows it.
InitSd ==
    /\ MetIdle
    /\ RfInit
    /\ ValInit
    /\ SdInit
    /\ RlInit
    /\ RegInit
    /\ HttpIdle
    /\ SplitIdle
    /\ EngineIdle
    /\ QueueInit
    /\ FsmIdle
    /\ WtInit
    /\ MigIdle

NextSd == SdNext

SpecSd == InitSd /\ [][NextSd]_vars

\* Calls of the three money operations with amounts around the limits.
InitVal ==
    /\ MetIdle
    /\ RfInit
    /\ ValInit
    /\ SdInit
    /\ RlInit
    /\ RegInit
    /\ HttpIdle
    /\ SplitIdle
    /\ EngineIdle
    /\ QueueInit
    /\ FsmIdle
    /\ WtInit
    /\ MigIdle

NextVal == ValNext

SpecVal == InitVal /\ [][NextVal]_vars

\* Calls of RefreshToken with tokens of every kind.
InitRf ==
    /\ MetIdle
    /\ RfInit
    /\ ValInit
    /\ SdInit
    /\ RlInit
    /\ RegInit
    /\ HttpIdle
    /\ SplitIdle
    /\ EngineIdle
    /\ QueueInit
    /\ FsmIdle
    /\ WtInit
    /\ MigIdle

NextRf == RfNext

SpecRf == InitRf /\ [][NextRf]_vars

\* Requests through the metrics middleware under every set of enable flags.
InitMet ==
    /\ MetInit
    /\ RfInit
    /\ ValInit
    /\ SdInit
    /\ RlInit
    /\ RegInit
    /\ HttpIdle
    /\ SplitIdle
    /\ EngineIdle
    /\ QueueInit
    /\ FsmIdle
    /\ WtInit
    /\ MigIdle

NextMet == MetNext

SpecMet == InitMet /\ [][NextMet]_vars

\* ================================================================ properties
\* The amount a balances row holds, an account without a row holding nothing.
Bal(b, u) == IF b[u] = NoRow THEN 0 ELSE b[u]

\* ----------------------------------------------------------------------- C1
\* C1: a transfer of amount a that commits lowers the sender's balance by
\* exactly a, raises the recipient's by exactly a, and leaves every other
\* balance as it was.
TransferMovesExactAmount ==
    [][\A p \in Procs :
         (pc[p] = "commit" /\ op[p].kind = "transfer" /\ result'[p] = "ok")
           => /\ Bal(dbBal', op[p].user) = Bal(dbBal, op[p].user) - op[p].amount
              /\ Bal(dbBal', op[p].to) = Bal(dbBal, op[p].to) + op[p].amount
              /\ \A u \in Users \ {op[p].user, op[p].to} : dbBal'[u] = dbBal[u]]_vars

\* ----------------------------------------------------------------------- C2
\* C2: whatever the interleaving of Credit, Debit and Transfer, every balance
\* equals its initial value plus the signed amounts of the operations that
\* committed: no update is lost.
BalanceIsInitialPlusCommitted ==
    \A u \in Users : Bal(dbBal, u) = Bal(initBal, u) + ledger[u]

\* ----------------------------------------------------------------------- C3
\* C3: no committed balance is negative.
BalanceNeverNegative ==
    \A u \in Users : dbBal[u] = NoRow \/ dbBal[u] >= 0

\* A committed debit or transfer took an account down to exactly zero.
DebitedToZero ==
    \E r \in dbTx : /\ r.type \in {"debit", "transfer"}
                    /\ r.status = StatusCompleted
                    /\ dbBal[r.from] = 0

\* ----------------------------------------------------------------------- C4
\* C4: an operation is all or nothing: the committed balances and transaction
\* rows change only in the step in which an operation commits and returns
\* success, and then all of its writes appear together; an operation that
\* returns an error leaves both tables as they were.  The one other change
\* of the tables is no step of an operation: the empty row a balance read
\* creates for a user who has none.
AllOrNothing ==
    [][/\ (dbBal' # dbBal \/ dbTx' # dbTx)
            => \/ \E p \in Procs : /\ pc[p] = "commit"
                                   /\ result'[p] = "ok"
                                   /\ dbBal' = CommittedBal(p)
                                   /\ dbTx' = dbTx \cup wTx[p]
               \/ \E u \in balCreate : /\ dbBal[u] = NoRow
                                        /\ dbBal' = [dbBal EXCEPT ![u] = 0]
                                        /\ dbTx' = dbTx
                                        /\ pc' = pc
       /\ \A p \in Procs : (result[p] = "none" /\ result'[p] \in {"error", "insufficient_funds"})
                              => dbBal' = dbBal /\ dbTx' = dbTx]_vars

\* An operation failed after its INSERT INTO transactions had run: the id it
\* drew from the sequence belongs to no committed row.
FailedAfterWrites ==
    /\ \A p \in Procs : pc[p] = "done"
    /\ \E p \in Procs : result[p] = "error"
    /\ txSeq > Cardinality(dbTx)

\* ----------------------------------------------------------------------- C5
\* A transfer that holds the lock of one of its two rows holds the lock of its
\* row with the smaller user_id.
LocksTakenAscending ==
    \A p \in Procs :
      (op[p] # NoOp /\ op[p].kind = "transfer")
        => LET lo == IF op[p].user < op[p].to THEN op[p].user ELSE op[p].to
               hi == IF op[p].user < op[p].to THEN op[p].to ELSE op[p].user
           IN p \in rowLock[hi] => p \in rowLock[lo]

\* C5: Transfer locks its two balance rows in ascending user_id order, so no
\* two transfers can wait for each other's row lock.
TransferLockOrder ==
    /\ LocksTakenAscending
    /\ \A p \in Procs : ~InDeadlock(p)

\* The elements of a sequence.
Range(q) == {q[i] : i \in 1..Len(q)}

\* ----------------------------------------------------------------------- C6
\* C6: every AddJob call gets exactly one result: no result channel is sent
\* more than one result, and a handler waiting on its result channel either
\* has its result in the channel or the result is still to come (the job sits
\* in the job channel, a worker is processing it, or the queue-full sender
\* runs), also when the worker panicked.
ExactlyOneResult ==
    \A j \in Jobs :
      /\ sent[j] <= 1
      /\ caller[j] = "waiting"
           => \/ resultChan[j] # <<>>
              \/ overflow[j]
              \/ j \in Range(jobChan)
              \/ \E w \in Workers : wState[w] = "processing" /\ wJob[w] = j

\* ----------------------------------------------------------------------- C7
\* C7: a panic while processing a job does not terminate the worker: until
\* Stop, all W workers serve the queue.
WorkersSurvivePanic ==
    (started /\ stopState = "running")
      => Cardinality({w \in Workers : wState[w] # "exited"}) = NumWorkers

\* ----------------------------------------------------------------------- C8
\* The next request to arrive.
NextJob == {j \in Jobs : caller[j] = "new" /\ \A i \in Jobs : i < j => caller[i] # "new"}

\* C8: AddJob never blocks: whatever the state of the running queue the call
\* can return at once; when the channel is full the call returns without
\* enqueuing the job, and what the result channel of a job that was not
\* enqueued carries is the queue-full error.
AddJobNeverBlocks ==
    /\ [](\A j \in NextJob : (started /\ ~chanClosed) => ENABLED AddJob(j))
    /\ [][\A j \in Jobs :
            (caller[j] = "new" /\ caller'[j] # "new" /\ ~chanClosed
               /\ Len(jobChan) = BufferSize)
              => /\ caller'[j] = "waiting"
                 /\ jobChan' = jobChan
                 /\ accepted' = accepted
                 /\ overflow'[j]]_vars
    /\ [](\A j \in Jobs :
            (caller[j] \in {"waiting", "received"} /\ j \notin Range(accepted))
              => /\ j \notin Range(jobChan) /\ j \notin Range(dequeued)
                 /\ \A r \in Range(resultChan[j]) \cup {received[j]} :
                      r \in {"none", "queue_full"}
                 /\ overflow[j] \/ sent[j] = 1)

\* A handler whose job found the channel full has read the queue-full error
\* while the jobs accepted before are still in the channel.
QueueFullDelivered ==
    \E j \in Jobs : /\ received[j] = "queue_full"
                    /\ Len(jobChan) = BufferSize

\* ----------------------------------------------------------------------- C9
\* C9: when Stop has returned, the job channel is empty and every accepted job
\* has been executed and its result sent.
StopDrainsQueue ==
    stopState = "stopped"
      => /\ jobChan = <<>>
         /\ \A j \in Range(accepted) : j \in Range(finished) /\ sent[j] = 1

\* ---------------------------------------------------------------------- C10
\* C10: workers take the jobs in the order in which AddJob accepted them: the
\* dequeue order is a prefix of the acceptance order.
DequeueOrderIsAcceptOrder ==
    /\ Len(dequeued) <= Len(accepted)
    /\ \A i \in 1..Len(dequeued) : dequeued[i] = accepted[i]

\* Two workers took two jobs, and the job taken second finished first.
FinishedOutOfOrder ==
    /\ Len(dequeued) >= 2
    /\ Len(finished) >= 2
    /\ finished[1] = dequeued[2]
    /\ finished[2] = dequeued[1]

\* ---------------------------------------------------------------------- C11
\* C11: a Debit or Transfer that reads, under the row lock, a payer balance
\* below its amount is aborted: the transaction object is marked failed and
\* nothing has been written; it ends with the insufficient-balance error and
\* leaves the committed balances and transaction rows as they were.
InsufficientFundsAborts ==
    [][\A p \in Procs :
         /\ (/\ pc[p] \in {"t_lockFrom", "d_lock"}
             /\ p \in rowLock'[op[p].user]
             /\ dbBal[op[p].user] < op[p].amount)
              => /\ pc'[p] = "insufficient"
                 /\ status'[p] = StatusFailed
                 /\ wTx'[p] = {}
                 /\ \A u \in Users : wBal'[p][u] = NoRow
         /\ (pc[p] = "insufficient" /\ pc'[p] # "insufficient")
              => /\ result'[p] = "insufficient_funds"
                 /\ status'[p] = StatusFailed
                 /\ dbBal' = dbBal
                 /\ dbTx' = dbTx]_vars

\* A debit or transfer ended with the insufficient-balance error.
EndedInsufficient ==
    \E p \in Procs : /\ pc[p] = "done"
                     /\ result[p] = "insufficient_funds"
                     /\ status[p] = StatusFailed

\* ---------------------------------------------------------------------- C12
Terminal == {StatusCompleted, StatusFailed, StatusCancelled}

\* C12: a status changes only from pending to completed, failed or cancelled,
\* hence at most once; SetStatus to the current status, from a terminal
\* status or to an unknown status returns an error and changes nothing, and
\* every other call succeeds and sets the status.
StatusChangesOnce ==
    /\ [][\A t \in TxObjs :
            /\ txStatus'[t] # txStatus[t]
                 => txStatus[t] = StatusPending /\ txStatus'[t] \in Terminal
            /\ (lastCall' # lastCall \/ setCalls' # setCalls) /\ lastCall'.obj = t
                 => IF \/ lastCall'.new = txStatus[t]
                       \/ txStatus[t] \in Terminal
                       \/ lastCall'.new \notin Terminal \cup {StatusPending}
                      THEN lastCall'.err /\ txStatus'[t] = txStatus[t]
                      ELSE ~lastCall'.err /\ txStatus'[t] = lastCall'.new]_vars
    /\ [](\A t \in TxObjs : statusChanges[t] <= 1)

\* An object left pending once, and a later SetStatus on it was refused.
RefusedAfterChange ==
    \E t \in TxObjs : /\ statusChanges[t] = 1
                      /\ lastCall.obj = t
                      /\ lastCall.err
                      /\ lastCall.new \in Terminal
                      /\ lastCall.new # txStatus[t]

\* ---------------------------------------------------------------------- C13
\* The accounts a committed transaction row changed, with the reason tag of
\* each.
HistoryDue(r) ==
    CASE r.type = "credit" -> {<<r.to, "credit">>}
      [] r.type = "debit" -> {<<r.from, "debit">>}
      [] r.type = "transfer" -> {<<r.from, "transfer_out">>, <<r.to, "transfer_in">>}

\* C13: every completed operation has, committed with it, exactly one
\* balance_history row per affected account, with new_amount =
\* previous_amount + change_amount, the reason of the operation and the
\* transaction id.
HistoryRowPerAccount ==
    \A r \in dbTx :
      r.status = StatusCompleted
        => \A d \in HistoryDue(r) :
             /\ Cardinality({h \in dbHist : h.transaction_id = r.id
                                              /\ h.user_id = d[1]}) = 1
             /\ \A h \in dbHist :
                  (h.transaction_id = r.id /\ h.user_id = d[1])
                    => /\ h.reason = d[2]
                       /\ h.new_amount = h.previous_amount + h.change_amount

\* ---------------------------------------------------------------------- C14
\* C14: WithTransaction ends the transaction exactly once on every path: an
\* open transaction has had no Commit or Rollback; a body that returned nil is
\* followed by one Commit and nothing is committed otherwise; a body that
\* returned an error is followed by one Rollback and that error is returned; a
\* body that panicked is followed by one Rollback before the same panic value
\* is raised again.
FinishesExactlyOnce ==
    \A c \in Callers :
      /\ wtTx[c] = "open" <=> (wtPc[c] \in {"body", "afterBody"})
      /\ wtPc[c] \in {"body", "afterBody"} => wtFinish[c] = <<>>
      /\ c \in wtVisible => wtBody[c].kind = "nil" /\ wtTx[c] = "committed"
      /\ wtPc[c] = "returned" =>
           CASE wtBody[c].kind = "nil" ->
                  /\ wtFinish[c] = <<"commit">>
                  /\ wtRet[c].kind = "nil" <=> wtTx[c] = "committed"
             [] wtBody[c].kind = "error" ->
                  /\ wtFinish[c] = <<"rollback">>
                  /\ wtTx[c] = "rolledback"
                  /\ wtRet[c].kind = "error"
                  /\ wtRet[c].cause = wtBody[c].val
             [] wtBody[c].kind = "panic" ->
                  /\ wtFinish[c] = <<"rollback">>
                  /\ wtTx[c] = "rolledback"
                  /\ wtRet[c].kind = "panic"
                  /\ wtRet[c].cause = wtBody[c].val
             [] OTHER -> wtTx[c] = "none" /\ wtFinish[c] = <<>>

\* One caller's body panicked and the panic was raised again after the
\* rollback, while another caller's body returned an error that came back.
PanicReraisedAfterRollback ==
    \E c, d \in Callers :
      /\ wtRet[c].kind = "panic" /\ wtTx[c] = "rolledback"
      /\ wtRet[d].kind = "error" /\ wtBody[d].kind = "error"

\* ---------------------------------------------------------------------- C15
\* C15: the effects of a migration script and the change of its tracking row
\* (inserted for UP, deleted for DOWN) become visible in one step, that of a
\* successful commit; a migration that fails at a statement, at the tracking
\* row, at the commit or on timeout leaves the schema and the tracking table
\* as they were.
MigrationAllOrNothing ==
    [][LET m == mList[mIdx]
           row == \E r \in track' : r.version = m.version
       IN /\ (dbSchema' # dbSchema \/ track' # track)
               => /\ mPc = "commit"
                  /\ Len(mResults') = Len(mResults) + 1
                  /\ mResults'[Len(mResults')].success
                  /\ IF mDir = "up"
                       THEN /\ dbSchema' = dbSchema \cup {m.ord}
                            /\ track' = track \cup {TrackRow(m)}
                            /\ row
                       ELSE /\ dbSchema' = dbSchema \ {m.ord}
                            /\ track' = {r \in track : r.version # m.version}
                            /\ track' # track
          /\ (Len(mResults') = Len(mResults) + 1 /\ ~mResults'[Len(mResults')].success)
               => dbSchema' = dbSchema /\ track' = track
          /\ (Len(mResults') = Len(mResults) + 1 /\ mResults'[Len(mResults')].success
                /\ ~mCfg.dryRun)
               => track' # track]_vars

\* A run applied one migration and failed in the transaction of the next one,
\* whose script had run: the first is in place and recorded, of the second
\* nothing is.
SecondMigrationLeftNothing ==
    /\ mPc = "idle"
    /\ mDir = "up"
    /\ Len(mResults) = 2
    /\ mResults[1].success
    /\ ~mResults[2].success
    /\ dbSchema = {mResults[1].ord}
    /\ Cardinality(track) = 1

\* ---------------------------------------------------------------------- C16
\* The versions of the migration files, as a load reads them today.
FileVersions == {NormalizeVersion(m, today) : m \in Migs}

\* The versions schema_migrations records.
AppliedVersions == {r.version : r \in track}

\* No recorded migration has a file whose checksum differs from the recorded
\* one.
NoDirtyFile ==
    \A m \in Migs : \A r \in track :
      r.version = NormalizeVersion(m, today)
        => ~ValidateChecksumsFails(ParseMigrationFile(m), r)

\* C16: when no migration file is dirty, after any sequence of RunUp and
\* RunDown calls the recorded versions are a prefix of the sorted versions of
\* the migration files: no version is recorded while a lower one is not.
AppliedIsPrefix ==
    (mPc = "idle" /\ NoDirtyFile)
      => /\ AppliedVersions \subseteq FileVersions
         /\ \A v \in AppliedVersions : \A w \in FileVersions :
              w < v => w \in AppliedVersions

\* ---------------------------------------------------------------------- C17
\* The migrations RunUp is to attempt: those of the loaded list that are not
\* applied and not above the target, in the order of the list.
Pending ==
    SelectSeq(mList, LAMBDA m : ~m.applied /\ (mTarget > 0 => m.version <= mTarget))

\* C17: RunUp(target) attempts the pending migrations with version <= target
\* (all of them when target = 0) in ascending order of version, attempts
\* nothing after the first one that fails, and its results list every
\* migration executed, the failed one last.
RunUpInOrder ==
    (runs > 0 /\ mDir = "up" /\ mErr = "none")
      => LET n == Len(mResults)
         IN /\ n <= Len(Pending)
            /\ \A i \in 1..n : /\ mResults[i].version = Pending[i].version
                                /\ mResults[i].direction = "up"
            /\ \A i, j \in 1..n : i < j => mResults[i].version < mResults[j].version
            /\ \A i \in 1..(n - 1) : mResults[i].success
            /\ (n > 0 /\ ~mResults[n].success) => mPc = "idle"
            /\ (mPc = "idle" /\ (n = 0 \/ mResults[n].success)) => n = Len(Pending)

\* A RunUp with three pending migrations returned after the second one
\* failed: the third was not attempted.
StoppedAtSecondOfThree ==
    /\ runs > 0 /\ mDir = "up" /\ mErr = "none"
    /\ mPc = "idle"
    /\ Len(Pending) = 3
    /\ Len(mResults) = 2
    /\ ~mResults[2].success

\* ---------------------------------------------------------------------- C18
\* The versions the list of the run had as applied when it was loaded.
AppliedAtLoad == {mList[i].version : i \in {j \in 1..Len(mList) : mList[j].applied}}

\* The run went through without an error and without a failed migration.
RunSucceeded ==
    /\ mPc = "idle"
    /\ mErr = "none"
    /\ \A i \in 1..Len(mResults) : mResults[i].success

\* C18: after the migrations were run UP to version V, so that exactly the
\* versions <= V are recorded, a run DOWN to V - 1 that goes through leaves
\* exactly the versions <= V - 1 recorded.
UpThenDownLeavesLower ==
    (/\ runs = 2 /\ mDir = "down" /\ ~mCfg.dryRun
     /\ RunSucceeded
     /\ (mTarget + 1) \in FileVersions
     /\ AppliedAtLoad = {v \in FileVersions : v <= mTarget + 1})
      => AppliedVersions = {v \in FileVersions : v <= mTarget}

\* ---------------------------------------------------------------------- C19
\* The migrations a RunDown comes to that it cannot roll back: recorded, above
\* the target, and without a DOWN file.
WithoutDown ==
    {m \in Migs : /\ fileDown[m] = NoFile
                  /\ NormalizeVersion(m, today) \in AppliedVersions
                  /\ NormalizeVersion(m, today) > mTarget}

\* The RunDown failed at the migration m or at a higher one before it.
FailedAtOrAbove(m) ==
    /\ Len(mResults) > 0
    /\ ~mResults[Len(mResults)].success
    /\ mResults[Len(mResults)].version >= NormalizeVersion(m, today)

\* The RunDown passed over the migrations without DOWN file and went on: it
\* has no result for them and, having gone through, it rolled back every
\* migration above the target that has a DOWN file.
SkippedAndWentOn ==
    /\ \A m \in WithoutDown : \A i \in 1..Len(mResults) :
         mResults[i].version # NormalizeVersion(m, today)
    /\ (RunSucceeded /\ ~mCfg.dryRun)
         => \A m \in Migs :
              (fileDown[m] # NoFile /\ NormalizeVersion(m, today) > mTarget)
                => NormalizeVersion(m, today) \notin AppliedVersions

\* C19: a RunDown that comes to an applied migration above the target
\* without DOWN script fails at that migration when DOWN files are required;
\* otherwise it passes over the migration, keeps its tracking row, and goes on
\* with the next lower version.
DownWithoutScript ==
    (mPc = "idle" /\ runs > 0 /\ mDir = "down" /\ mErr = "none")
      => IF mCfg.requireDown
           THEN \A m \in WithoutDown : FailedAtOrAbove(m)
           ELSE SkippedAndWentOn

\* The half of C19 for runs that do not require DOWN files.
DownSkipsWhenNotRequired ==
    (mPc = "idle" /\ runs > 0 /\ mDir = "down" /\ mErr = "none" /\ ~mCfg.requireDown)
      => SkippedAndWentOn

\* ---------------------------------------------------------------------- C20
\* The file of migration m differs from what row r recorded of it.
FileDiffers(m, r) ==
    \/ fileUp[m] # r.upChecksum
    \/ fileDown[m] # NoFile /\ r.downChecksum # NoFile /\ fileDown[m] # r.downChecksum

\* The configurations the constructors of package migration return
\* (DefaultConfig and AppStartupConfig, CLIConfig and ProductionConfig,
\* DevelopmentConfig and TestConfig); the callers pass no other.
ConstructorConfigs == {DefaultConfig, CLIConfig, DevelopmentConfig}

\* A load under cfg reads a migration that schema_migrations records as
\* applied, on whatever day its row was written, and whose file differs from
\* the recorded checksums.
LoadsDirty(cfg) ==
    \E m \in Migs : \E r \in track :
      /\ ~ParseFails(m, cfg)
      /\ FileOf(r.version) = m
      /\ FileDiffers(m, r)

\* The same, for a row whose version is the one today's load gives the file:
\* the only rows LoadMigrationsWithStatus compares a file with.
LoadsDirtySameVersion(cfg) ==
    \E m \in Migs : \E r \in track :
      /\ ~ParseFails(m, cfg)
      /\ r.version = NormalizeVersion(m, today)
      /\ FileDiffers(m, r)

\* The call of RunUp or RunDown in this step returned an error before
\* executing any migration, and changed nothing.
CallRejected ==
    /\ mErr' # "none"
    /\ mPc' = "idle"
    /\ mResults' = <<>>
    /\ UNCHANGED <<dbSchema, track>>

\* C20: under every configuration a constructor returns, a load that finds
\* the file of a migration recorded as applied changed is rejected with an
\* error and no migration is executed, unless allow-dirty is enabled.
DirtyLoadRejected ==
    [][(/\ runs' = runs + 1
        /\ mCfg' \in ConstructorConfigs
        /\ LoadsDirty(mCfg')
        /\ ~mCfg'.allowDirty)
         => CallRejected]_vars

\* What the code does of C20: a load that validates checksums and finds a
\* changed file under the version its row has is rejected with an error and
\* no migration is executed, unless allow-dirty is enabled; no other load is
\* rejected for a checksum.
DirtyLoadRejectedWhenValidating ==
    [][runs' = runs + 1
         => /\ (/\ mCfg'.validateChecksums
                 /\ LoadsDirtySameVersion(mCfg')
                 /\ ~mCfg'.allowDirty)
                 => CallRejected
            /\ mErr' = "checksum"
                 => /\ mCfg'.validateChecksums
                    /\ LoadsDirtySameVersion(mCfg')
                    /\ ~mCfg'.allowDirty
                    /\ CallRejected]_vars

\* A run was rejected for the checksum of a DOWN file edited after its
\* migration was applied, the UP file being as recorded.
RejectedForEditedDown ==
    /\ mErr = "checksum"
    /\ mPc = "idle"
    /\ \E m \in Migs : \E r \in track :
         /\ r.version = NormalizeVersion(m, today)
         /\ fileUp[m] = r.upChecksum
         /\ fileDown[m] # r.downChecksum

\* An applied migration whose UP file was edited is loaded on a later day
\* under a configuration that validates checksums and forbids dirty files,
\* and the load is accepted: the file is pending under a new version.
EditedFileLoadedAsPending ==
    /\ runs = 2 /\ mErr = "none"
    /\ mCfg.validateChecksums /\ ~mCfg.allowDirty
    /\ \E i \in 1..Len(mList) : \E r \in track :
         /\ FileOf(r.version) = mList[i].ord
         /\ r.version # mList[i].version
         /\ fileUp[mList[i].ord] # r.upChecksum
         /\ ~mList[i].applied

\* ---------------------------------------------------------------------- C21
\* C21: a run in dry-run mode leaves the database as it found it: no
\* migration statement takes effect, no table is created or altered, no
\* tracking row is inserted or deleted.
DryRunChangesNothing ==
    [][(mCfg'.dryRun /\ (runs' = runs + 1 \/ mPc # "idle"))
         => UNCHANGED <<dbSchema, track, trackTable>>]_vars

\* The part of C21 about the migrations themselves: a dry run leaves the
\* schema and the tracking rows alone.
DryRunExecutesNothing ==
    [][(mCfg'.dryRun /\ (runs' = runs + 1 \/ mPc # "idle"))
         => UNCHANGED <<dbSchema, track>>]_vars

\* ---------------------------------------------------------------------- C22
\* The index after the newline that ends a line comment running from i.
RECURSIVE LineEnd(_, _)
LineEnd(s, i) ==
    IF i > Len(s) THEN i
    ELSE IF s[i] = Newline THEN i + 1
    ELSE LineEnd(s, i + 1)

\* The index after the */ that ends a block comment running from i.
RECURSIVE BlockEnd(_, _)
BlockEnd(s, i) ==
    IF i > Len(s) THEN i
    ELSE IF s[i] = Star /\ i + 1 <= Len(s) /\ s[i + 1] = Slash THEN i + 2
    ELSE BlockEnd(s, i + 1)

\* The index after the first closing tag identical to the opening tag, in a
\* dollar-quoted body running from i.
RECURSIVE DollarEnd(_, _, _)
DollarEnd(s, i, tag) ==
    IF i + Len(tag) - 1 > Len(s) THEN Len(s) + 1
    ELSE IF SubSeq(s, i, i + Len(tag) - 1) = tag THEN i + Len(tag)
    ELSE DollarEnd(s, i + 1, tag)

\* The top-level semicolons of s from index i on, i being at top level: those
\* outside single-quoted strings, dollar-quoted bodies and comments.
RECURSIVE TopLevelFrom(_, _)
TopLevelFrom(s, i) ==
    LET follows(d) == i + 1 <= Len(s) /\ s[i + 1] = d
        j == TagEnd(s, i + 1)
    IN IF i > Len(s) THEN {}
       ELSE IF s[i] = Dash /\ follows(Dash) THEN TopLevelFrom(s, LineEnd(s, i + 2))
       ELSE IF s[i] = Slash /\ follows(Star) THEN TopLevelFrom(s, BlockEnd(s, i + 2))
       ELSE IF s[i] = SingleQuote THEN TopLevelFrom(s, QuotedEnd(s, i + 1))
       ELSE IF s[i] = DollarSign /\ j <= Len(s) /\ s[j] = DollarSign
              THEN TopLevelFrom(s, DollarEnd(s, j + 1, SubSeq(s, i, j)))
       ELSE IF s[i] = Semicolon THEN {i} \cup TopLevelFrom(s, i + 1)
       ELSE TopLevelFrom(s, i + 1)

\* s cut at the indices of cuts, each piece trimmed and the empty ones left
\* out.
RECURSIVE CutFrom(_, _, _, _, _)
CutFrom(s, i, buf, out, cuts) ==
    IF i > Len(s) THEN Flush(buf, out)
    ELSE IF i \in cuts THEN CutFrom(s, i + 1, <<>>, Flush(buf, out), cuts)
    ELSE CutFrom(s, i + 1, Append(buf, s[i]), out, cuts)

\* The statements of a script: what lies between its top-level semicolons.
Statements(s) == CutFrom(s, 1, <<>>, <<>>, TopLevelFrom(s, 1))

\* strings.Join(out, ";").
RECURSIVE Join(_)
Join(out) ==
    IF out = <<>> THEN <<>>
    ELSE IF Len(out) = 1 THEN out[1]
    ELSE out[1] \o <<Semicolon>> \o Join(Tail(out))

\* The first half of C22: the statements returned are the script cut at its
\* top-level semicolons.
CutsAtTopLevel == splitPc = "done" => stmts = Statements(sql)

\* The second half of C22: the returned statements joined with semicolons
\* are a script of the same statements.
JoinIsEquivalent == splitPc = "done" => Statements(Join(stmts)) = Statements(sql)

\* C22: splitSQLStatements cuts its input exactly at the top-level
\* semicolons (a semicolon in a single-quoted string, in a dollar-quoted
\* body, which ends only at a closing tag identical to its opening tag, or in
\* a comment ends no statement, every other one does), so that the returned
\* statements joined with semicolons are equivalent to the input.
SplitsAtTopLevelSemicolons == CutsAtTopLevel /\ JoinIsEquivalent

\* ------------------------------------------------------------------ C23
\* The request being served carries claims with a role, and the RBAC
\* middleware of its route has decided on it.
RbacDecided ==
    /\ httpPc \in {"handler", "service", "recover", "return", "done"}
    /\ Protected(httpReq.path)
    /\ ctxClaims # NoClaims
    /\ ctxClaims.Role # ""

\* The ownership predicate of the route holds for the actor.
OwnershipHolds ==
    /\ RouteRBAC(httpReq).AllowOwner
    /\ RouteRBAC(httpReq).ResourceOwnership = "UserResourceOwnership"
    /\ httpReq.id = ctxClaims.UserID

\* The role of the actor's claims holds the permission the route requires.
RoleHolds ==
    /\ ctxClaims.Role \in {"user", "mod", "admin"}
    /\ RouteRBAC(httpReq).RequiredPermission \in RolePermissions[ctxClaims.Role]

\* C23: a request with valid claims reaches the handler of an RBAC-protected
\* route if and only if the ownership predicate of the route holds for the
\* actor or the actor's role holds the required permission; otherwise the
\* handler is not invoked and the one response sent has status 403.
RbacPassesIffGranted ==
    RbacDecided =>
        /\ (httpPc = "handler" \/ handlerRan) <=> (OwnershipHolds \/ RoleHolds)
        /\ ~(OwnershipHolds \/ RoleHolds) =>
              /\ ~handlerRan
              /\ panicVal = RBACError
              /\ httpPc = "done" => (resp.status = 403 /\ resp.count = 1)

\* A moderator asked for another user's record and was answered 403.
DeniedWith403 ==
    /\ RbacDecided
    /\ httpPc = "done"
    /\ ctxClaims.Role = "mod"
    /\ httpReq.handler = "GetUserByID"
    /\ ~OwnershipHolds
    /\ ~handlerRan
    /\ resp.status = 403

\* ------------------------------------------------------------------ C24
\* An authenticated PUT or DELETE of a user, with a body the handler
\* accepts, has been answered, and the answer is not the refusal of the
\* service or of the database (a user that is deleted, an email another user
\* has, a statement that failed).
UserWriteAnswered ==
    /\ httpPc = "done"
    /\ httpReq.handler \in {"UpdateUser", "DeleteUser"}
    /\ ctxClaims # NoClaims
    /\ ctxClaims.Role \in {"user", "mod", "admin"}
    /\ httpReq.handler = "UpdateUser"
          => (Decodes(httpReq.body) /\ UpdateUserRequestValidate(httpReq.body))
    /\ panicVal.type # "ValidationError"

\* The request was carried out: the handler changed the row and answered 200.
CarriedOut == handlerRan /\ resp.status = 200 /\ panicVal = NoPanic

\* C24: an update or soft delete of user {id} is carried out if and only if
\* the authenticated actor is user {id} or has the admin role, and is denied
\* otherwise.
UserWriteIffSelfOrAdmin ==
    UserWriteAnswered =>
        /\ CarriedOut <=>
              (ctxClaims.UserID = httpReq.id \/ ctxClaims.Role = "admin")
        /\ ~CarriedOut => resp.status = 403

\* What the code does: an update or soft delete is carried out only for the
\* actor's own id, whatever the role.
UserWriteOnlyBySelf ==
    UserWriteAnswered => (CarriedOut <=> ctxClaims.UserID = httpReq.id)

\* ------------------------------------------------------------------ C25
\* The request being served carries a signed bearer token without a role and
\* has passed the authentication step.
RolelessTokenSeen ==
    /\ httpPc \in {"rbac", "handler", "service", "recover", "return", "done"}
    /\ Protected(httpReq.path)
    /\ httpReq.header.scheme = "Bearer"
    /\ httpReq.header.signed
    /\ httpReq.header.Role = ""

\* C25: a bearer token whose claims carry no role is rejected as an invalid
\* token (401, no claims in the context, no handler run); it is never
\* accepted and treated as if its role were user.
RolelessTokenRejected ==
    RolelessTokenSeen =>
        /\ ctxClaims = NoClaims
        /\ ~handlerRan
        /\ panicVal = AuthError
        /\ httpPc = "done" => resp.status = 401

\* ------------------------------------------------------------------ C29
\* The status the claim gives a recovered panic value: 400, 401 and 403 for
\* the three kinds of classified error, 500 for everything else.
StatusOfPanic(p) ==
    CASE p.type = "ValidationError" -> 400
      [] p.type = "AuthError" -> 401
      [] p.type = "RBACError" -> 403
      [] OTHER -> 500

\* C29: every panic of an inner middleware or handler is recovered by the
\* error middleware and answered with exactly one JSON error response, with
\* the status of its kind for a classified error (validation 400, auth 401,
\* authorization 403) and 500 otherwise; the request ends in the middleware,
\* the panic goes no further.
PanicBecomesOneErrorResponse ==
    panicVal # NoPanic =>
        /\ httpPc \in {"recover", "done"}
        /\ httpPc = "done" =>
              /\ resp.count = 1
              /\ resp.errorJson
              /\ resp.status = StatusOfPanic(panicVal)

\* The status the panic value carries: the StatusCode of a classified error,
\* 500 for everything else.
OwnStatus(p) == IF p.type \in APIError THEN p.StatusCode ELSE 500

\* C29 as the code has it: every panic of an inner middleware or handler is
\* recovered by the error middleware and answered with exactly one JSON
\* error response whose status is the StatusCode the panic value carries when
\* it is a classified error, which for a validation error is 400, 404 or 500
\* as the panic site says, and 500 otherwise; the panic goes no further.
PanicAnsweredWithOwnStatus ==
    panicVal # NoPanic =>
        /\ httpPc \in {"recover", "done"}
        /\ httpPc = "done" =>
              /\ resp.count = 1
              /\ resp.errorJson
              /\ resp.status = OwnStatus(panicVal)

\* The panic of GetUserByID for a user the service did not find, a
\* validation error, was answered 404.
ValidationPanicAnswered404 ==
    /\ httpPc = "done"
    /\ handlerRan
    /\ httpReq.handler = "GetUserByID"
    /\ panicVal = ValidationError(404)
    /\ resp.count = 1
    /\ resp.errorJson
    /\ resp.status = 404

\* The panic of a handler with a value that is no error was answered 500.
StringPanicAnswered500 ==
    /\ httpPc = "done"
    /\ handlerRan
    /\ panicVal = StringPanic
    /\ resp.count = 1
    /\ resp.status = 500

\* ------------------------------------------------------------------ C30
\* C30: unless the application runs with the development configuration, no
\* response carries a stack trace, whatever the request and the failure.
NoStackInProduction ==
    appEnv # "development" => resp.stack = ""

\* In production a handler failed with an error that is no APIError, for
\* which the middleware takes the stack, and the response has no stack field.
ProductionPanicWithoutStack ==
    /\ appEnv = "production"
    /\ httpPc = "done"
    /\ panicVal = PlainError
    /\ resp.errorJson
    /\ resp.status = 500
    /\ resp.stack = ""

\* ------------------------------------------------------------------ C26
\* The email is in use: a user that is not deleted has it.
EmailInUse(rows, email) ==
    \E i \in DOMAIN rows : rows[i].email = email /\ ~rows[i].deleted

\* The step is one of the call of Register that caller c has under way.
RegisterStep(c) ==
    /\ svc[c].method = "Register"
    /\ svc[c].pc \in {"read", "write"}
    /\ svc'[c] # svc[c]

\* C26: Register creates a user only when the email is not in use and the
\* request does not ask for the role admin or mod, and the user it creates
\* has the role user; a request with an email in use or with the role admin
\* or mod returns an error and leaves the table as it was.
RegisterCreatesOnlyUsers ==
    [][\A c \in ServiceCallers :
          RegisterStep(c) =>
            LET request == svc[c].req
                rejected == \/ EmailInUse(users, request.Email)
                            \/ request.Role \in {"admin", "mod"}
            IN  /\ users' # users =>
                    /\ ~rejected
                    /\ svc'[c].pc = "returned"
                    /\ svc'[c].err = ""
                    /\ svc'[c].user = Len(users) + 1
                    /\ users' = Append(users,
                                       [email |-> request.Email, role |-> "user",
                                        deleted |-> FALSE, rev |-> 0])
                /\ rejected =>
                    /\ users' = users
                    /\ svc'[c].pc = "returned" => svc'[c].err # ""
                /\ (svc[c].pc = "read" /\ request.Role \in {"admin", "mod"}) =>
                    (svc'[c].pc = "returned" /\ svc'[c].err # "")]_vars

\* Two calls of Register with the same email ran side by side: both found
\* the email free, one created the user and the other was refused by the
\* table.
RacingRegisterRefused ==
    /\ svc["c1"].method = "Register"
    /\ svc["c2"].method = "Register"
    /\ svc["c1"].req.Email = svc["c2"].req.Email
    /\ svc["c1"].pc = "returned"
    /\ svc["c2"].pc = "returned"
    /\ svc["c1"].err = ""
    /\ svc["c1"].user = NumUsers + 1
    /\ svc["c2"].err = "create"
    /\ Len(users) = NumUsers + 1
    /\ users[NumUsers + 1].role = "user"

\* ------------------------------------------------------------------ C27
\* The last request was one the limiter checked.
RlChecked == rlLast.ip # 0 /\ rlLast.path \notin SkipPaths

\* C27 as stated: of the requests of a client IP that arrive within one
\* window, the first Burst are allowed and the one after them is refused
\* with 429 and does not reach the inner handler.
BurstPerWindow ==
    RlChecked =>
        /\ rlLast.inWindow <= Burst => (rlLast.allowed /\ rlLast.reached)
        /\ rlLast.inWindow = Burst + 1 =>
              (~rlLast.allowed /\ rlLast.status = 429 /\ ~rlLast.reached)

\* C27, amended: the first Burst requests of a client IP the limiter has no
\* entry for are allowed, and the one after them is refused with 429 and
\* does not reach the inner handler when it arrives before the first token
\* is refilled, less than WindowSize / RequestsPerMinute after the first.
BurstThenRefusedUntilRefill ==
    RlChecked =>
        /\ rlLast.nth <= Burst => (rlLast.allowed /\ rlLast.reached)
        /\ (rlLast.nth = Burst + 1 /\ rlLast.at < rlLast.firstAt + RefillTicks)
              => (~rlLast.allowed /\ rlLast.status = 429 /\ ~rlLast.reached)

\* The request after the burst, one tick after the first, was refused with
\* 429 although the window had a token's worth of time left.
RefusedAfterBurst ==
    /\ RlChecked
    /\ rlLast.nth = Burst + 1
    /\ rlLast.at = rlLast.firstAt + RefillTicks - 1
    /\ ~rlLast.allowed
    /\ rlLast.status = 429
    /\ ~rlLast.reached
    /\ rlLast.remaining = 0

\* ------------------------------------------------------------------ C28
\* C28: after a client IP has been refused, its first request at or after
\* the reset time the refusal reported is allowed.
AllowedAfterReset ==
    (RlChecked /\ rlLast.afterLimit) => rlLast.allowed

\* ---------------------------------------------------------------- C31
\* The places of a step in the history of the shutdown.
Places(name) == {i \in DOMAIN sdEvents : sdEvents[i].ev = name}

\* The steps come in the order: signal, the listeners are closed, the wait
\* for the requests in flight is over, the job channel is closed, the wait
\* for the queue is over, the database is closed.
ShutdownStepsInOrder ==
    \A i, j \in DOMAIN sdEvents :
        LET rank == [e \in {"signal", "stopAccept", "httpStopped", "queueClose",
                            "queueWaitOver", "dbClose"} |->
                        CASE e = "signal" -> 1
                          [] e = "stopAccept" -> 2
                          [] e = "httpStopped" -> 3
                          [] e = "queueClose" -> 4
                          [] e = "queueWaitOver" -> 5
                          [] e = "dbClose" -> 6]
        IN  /\ i < j => rank[sdEvents[i].ev] < rank[sdEvents[j].ev]
            /\ sdEvents[i].ev = "queueClose" => ~listening
            /\ sdEvents[i].ev = "dbClose" => sdClosed

\* The wait for the queue ends when the queue has drained or ten seconds
\* after it began, whichever is first.
QueueWaitUpToTimeout ==
    \A i \in Places("queueWaitOver"), j \in Places("httpStopped") :
        /\ sdEvents[i].at <= sdEvents[j].at + QueueTimeout
        /\ sdEvents[i].queued = 0 \/ sdEvents[i].at = sdEvents[j].at + QueueTimeout

\* C31: on the signal the server stops accepting and waits for the requests
\* in flight for up to 30 s, so the wait is over when no request is in
\* flight or 30 s after the signal, whichever is first; only then is the
\* job channel closed, the drain given up to 10 s, and only then is the
\* database closed.
ShutdownInOrder ==
    /\ ShutdownStepsInOrder
    /\ QueueWaitUpToTimeout
    /\ \A i \in Places("httpStopped"), j \in Places("signal") :
          /\ sdEvents[i].at <= sdEvents[j].at + ShutdownTimeout
          /\ sdEvents[i].busy = 0 \/ sdEvents[i].at = sdEvents[j].at + ShutdownTimeout

\* The same with the wait for the requests in flight as the code bounds it:
\* 30 s, and 5 s more once the 30 s are over.
ShutdownInOrderWithForceWait ==
    /\ ShutdownStepsInOrder
    /\ QueueWaitUpToTimeout
    /\ \A i \in Places("httpStopped"), j \in Places("signal") :
          /\ sdEvents[i].at <= sdEvents[j].at + ShutdownTimeout + ForceTimeout
          /\ sdEvents[i].busy = 0 \/ sdEvents[i].at >= sdEvents[j].at + ShutdownTimeout

\* ---------------------------------------------------------------- C32
\* C32: a Credit or a Transfer that found no balance row for the recipient
\* inserts the row with amount 0 and goes on to its other statements: unless
\* the database fails for a reason outside the program, the step that
\* follows the missing row is the successful INSERT.
MissingRowInsertedThenProceeds ==
    [][\A p \in Procs :
          (pc[p] \in {"c_insertBal", "t_insertTo"} /\ pc'[p] # pc[p]
              /\ faults' = faults)
          => /\ pc'[p] \in {"c_apply", "t_apply"}
             /\ wBal'[p][IF pc[p] = "c_insertBal" THEN op[p].user ELSE op[p].to] = 0]_vars

\* ---------------------------------------------------------------- C33
\* C33: a money operation whose amount is zero, negative or above 1,000,000
\* and a Transfer to the sender returns before db.WithTransaction is called,
\* and an operation with an amount of exactly 1,000,000 that is otherwise
\* well formed goes on to the database.
RejectedBeforeDatabase ==
    vOut # "none" =>
        /\ (vReq.amount <= 0 \/ vReq.amount > MaxAmount
              \/ (vReq.kind = "transfer" /\ vReq.to = vReq.user))
           => vOut = "rejected"
        /\ (vReq.amount = MaxAmount
              /\ (vReq.kind = "transfer" => vReq.to > 0 /\ vReq.to # vReq.user))
           => vOut = "begun"

\* A transfer to another user was rejected for nothing but an amount one
\* cent above the limit.
AboveLimitRejected ==
    /\ vOut = "rejected"
    /\ vReq.kind = "transfer" /\ vReq.to > 0 /\ vReq.to # vReq.user
    /\ vReq.amount = MaxAmount + 10

\* ---------------------------------------------------------------- C34
\* C34: a transfer whose handler got an error result is answered with 503
\* when the error is that the queue is full and with 400 when it is any
\* other error.
DeniedTransferStatus ==
    \A j \in Jobs :
        (caller[j] = "received" /\ received[j] # "committed")
        => answer[j] = IF received[j] = "queue_full" THEN 503 ELSE 400

\* ---------------------------------------------------------------- C36
\* C36: no AddJob sends on the job channel once Stop has closed it: no
\* handler ends in the panic of a send on a closed channel, whenever its
\* transfer is submitted.
NoSendOnClosedChannel == \A j \in Jobs : caller[j] # "panicked"

\* The same for the requests that are still in flight when the shutdown of
\* main stops the queue.
NoSendOnClosedChannelAtShutdown == sdPanics = 0

\* ---------------------------------------------------------------- C35
\* C35: the role of a user changes only in a promote or demote request of an
\* actor whose role is admin; no other request, in particular no update of
\* the actor's own record, changes the role of any user.
RoleChangedOnlyByAdmin ==
    [][\A u \in UserIds :
          users'[u].role # users[u].role
          => /\ httpReq.handler \in {"PromoteToMod", "DemoteUser"}
             /\ getUserRole(ctxClaims) = "admin"]_vars

\* The promote and demote routes change roles only for an admin actor.
PromoteOnlyByAdmin ==
    [][\A u \in UserIds :
          (users'[u].role # users[u].role /\ httpReq.handler # "UpdateUser")
          => /\ httpReq.handler \in {"PromoteToMod", "DemoteUser"}
             /\ getUserRole(ctxClaims) = "admin"]_vars

\* ---------------------------------------------------------------- C38
\* C38: a request that carries the token of a user whose row is soft-deleted
\* is rejected before it reaches its handler (the request that deletes the
\* row is the last one the token serves).
DeletedUserRejected ==
    (/\ ctxClaims # NoClaims
     /\ ctxClaims.UserID \in UserIds
     /\ users[ctxClaims.UserID].deleted
     /\ httpReq.handler # "DeleteUser")
    => ~handlerRan

\* In particular the credit of a deleted user is not carried out.
DeletedUserCannotCredit ==
    (/\ ctxClaims # NoClaims
     /\ ctxClaims.UserID \in UserIds
     /\ users[ctxClaims.UserID].deleted
     /\ httpReq.handler = "Credit")
    => resp.status # 201

\* ---------------------------------------------------------------- C37
\* C37: a migration that schema_migrations records as applied is loaded as
\* applied by every later load, on whatever day the load runs: no entry of a
\* loaded list is pending while a row recorded for its file on another day
\* exists.
RecordedIsRecognised ==
    (runs > 0 /\ mErr = "none")
    => \A i \in 1..Len(mList) :
          (\E r \in track : /\ FileOf(r.version) = mList[i].ord
                            /\ r.version # mList[i].version)
          => mList[i].applied

\* A second RunUp on the same day and with the same files applies nothing.
RerunSameDayAppliesNothing ==
    (/\ runs = 2 /\ mDir = "up" /\ mErr = "none" /\ today = 1 /\ edits = 0
     /\ \A i \in 1..Len(mList) : mList[i].applied)
    => mResults = <<>>

\* ---------------------------------------------------------------- C39
\* The refresh of the last call returned a token.
Refreshed == rfCalls > 0 /\ rfNew # NoToken

\* C39: the token a refresh returns carries the user id, the email and the
\* role of the expired token, so the role the middleware reads from it is
\* the one it read from the expired token.
RefreshKeepsClaims ==
    Refreshed
    => /\ rfNew.UserID = rfToken.UserID
       /\ rfNew.Email = rfToken.Email
       /\ rfNew.Role = rfToken.Role
       /\ getUserRole(rfNew) = getUserRole(rfToken)

\* What the refresh does keep: the user id and the email; and it returns a
\* token only for a signed token that has expired.
RefreshKeepsUserAndEmail ==
    Refreshed
    => /\ rfNew.UserID = rfToken.UserID
       /\ rfNew.Email = rfToken.Email
       /\ rfToken.signed /\ rfToken.expired

\* ---------------------------------------------------------------- C40
\* C40: the gauge of active requests is the number of requests inside the
\* metrics middleware, so it is never negative and is 0 when none is in
\* flight, whatever the enable flags and whether or not a handler panicked.
GaugeEqualsInFlight == ActiveRequests = Cardinality(InFlight)

\* What holds: with the flags the router is built with and no panic of an
\* inner handler so far, the gauge is the number of requests in flight.
GaugeEqualsInFlightWithoutPanic ==
    (metConfig = DefaultMetricsConfig /\ metPanics = 0) => GaugeEqualsInFlight

\* With the flags the router is built with the gauge is the number in flight
\* plus the panics so far: it never goes down after a panic.
GaugeCountsPanicsToo ==
    metConfig = DefaultMetricsConfig
    => ActiveRequests = Cardinality(InFlight) + metPanics

====
